---------------------------- MODULE Spec2Model ----------------------------
(***************************************************************************)
(* Longenix risk engine: the calculators of js/calculators.js, the report  *)
(* computation of js/report.js (Report.render) and the app shell of        *)
(* js/app.js, as a state machine.                                          *)
(*                                                                         *)
(* Number representation.  A JavaScript value is a record [k, v]:          *)
(*   k = "num"       a finite number, v its fixed-point integer            *)
(*   k = "null" / "undefined" / "NaN"                                      *)
(*   k = "inf"       +Infinity (v = 1) or -Infinity (v = -1)               *)
(* Fixed-point scales: ages, lengths, weights, pressures and counts are    *)
(* whole units; laboratory values, BMI and eGFR are hundredths; risk       *)
(* percentages are thousandths of a percent (95% = 95000).  A real x is    *)
(* held as floor(x * scale), which keeps every comparison against a        *)
(* threshold lying on the grid exact.                                      *)
(***************************************************************************)
EXTENDS Integers, Sequences, FiniteSets, TLC

VARIABLES
    country,    \* AppState.session.country
    client,     \* AppState.client (flattened record) or NoClient
    screen,     \* "landing" | "intake" | "report"
    report,     \* the values Report.render computed, or NoReport
    call,       \* a direct call of an exposed calculator: [fn, ...arguments]
    ret,        \* what that call returned
    lab,        \* a run of LabParser: [kind, rows, pos, out], or NoLab
    alert,      \* the text of the last alert() of the upload handler, or ""
    clients,    \* Storage 'clients': the saved records, in order
    form        \* the 3-step intake form: currentStep, state, stored, msg

vars == <<country, client, screen, report, call, ret, lab, alert, clients, form>>

-----------------------------------------------------------------------------
(* JavaScript values and the coercions the calculators rely on *)

Num(n) == [k |-> "num", v |-> n]
Null == [k |-> "null", v |-> 0]
Undefined == [k |-> "undefined", v |-> 0]
NaN == [k |-> "NaN", v |-> 0]
PosInf == [k |-> "inf", v |-> 1]
NegInf == [k |-> "inf", v |-> -1]

\* x == null  (true of null and undefined only)
IsNullish(x) == x.k \in {"null", "undefined"}

\* ToNumber: null -> 0, undefined -> NaN
ToNumber(x) ==
    CASE x.k = "null" -> Num(0)
      [] x.k = "undefined" -> NaN
      [] OTHER -> x

\* isNaN(x)
IsNaN(x) == ToNumber(x).k = "NaN"

\* isFinite(x)
IsFinite(x) == ToNumber(x).k = "num"

\* truthiness of a number-or-missing value: 0, NaN, null, undefined are falsy
Truthy(x) ==
    /\ x.k \notin {"null", "undefined", "NaN"}
    /\ ~(x.k = "num" /\ x.v = 0)

\* x || d
OrElse(x, d) == IF Truthy(x) THEN x ELSE d

\* +x || d
PlusOrElse(x, d) == OrElse(ToNumber(x), d)

\* position of a number on the extended line: -inf < finite < +inf
Tier(n) == IF n.k = "inf" THEN n.v ELSE 0

\* a >= b, a <= b, a < b, a > b  (false as soon as an operand is NaN)
Ge(a, b) ==
    LET x == ToNumber(a)
        y == ToNumber(b)
    IN  /\ x.k # "NaN" /\ y.k # "NaN"
        /\ \/ Tier(x) > Tier(y)
           \/ Tier(x) = Tier(y) /\ (Tier(x) # 0 \/ x.v >= y.v)
Le(a, b) == Ge(b, a)
Lt(a, b) ==
    LET x == ToNumber(a)
        y == ToNumber(b)
    IN  /\ x.k # "NaN" /\ y.k # "NaN"
        /\ \/ Tier(x) < Tier(y)
           \/ Tier(x) = 0 /\ Tier(y) = 0 /\ x.v < y.v
Gt(a, b) == Lt(b, a)

GeN(a, n) == Ge(a, Num(n))
LeN(a, n) == Le(a, Num(n))
LtN(a, n) == Lt(a, Num(n))
GtN(a, n) == Gt(a, Num(n))

\* x * (p/q) for a positive constant p/q, on the fixed-point grid
Times(x, p, q) ==
    LET n == ToNumber(x)
    IN  IF n.k = "num" THEN Num((n.v * p) \div q) ELSE n

MinOf(S) == CHOOSE m \in S : \A o \in S : m <= o
MaxOf(S) == CHOOSE m \in S : \A o \in S : m >= o

\* (sex||"").toLowerCase().startsWith("m"); the empty string stands for a
\* sex that is null, undefined or "", which every use treats alike
StartsWithM(sex) == sex \in {"Male", "male", "M", "m"}

-----------------------------------------------------------------------------
(* riskColor: percentages in thousandths of a percent *)

riskColor_Le(pct) ==
    LET p == ToNumber(pct)
    IN  IF ~IsFinite(p) THEN [label |-> "N/A", class |-> ""]
        ELSE IF LeN(p, 10000) THEN [label |-> "Low", class |-> "low"]
        ELSE IF LtN(p, 20000) THEN [label |-> "Medium", class |-> "med"]
        ELSE [label |-> "High", class |-> "high"]

\* const p = +pct; if (!isFinite(p)) N/A; if (p < 10) Low; if (p < 20) Medium; High
riskColor(pct) ==
    LET p == ToNumber(pct)
    IN  IF ~IsFinite(p) THEN [label |-> "N/A", class |-> ""]
        ELSE IF LtN(p, 10000) THEN [label |-> "Low", class |-> "low"]
        ELSE IF LtN(p, 20000) THEN [label |-> "Medium", class |-> "med"]
        ELSE [label |-> "High", class |-> "high"]

-----------------------------------------------------------------------------
(* Units: laboratory values in hundredths *)

mgdl_to_mmol_glucose(v) == Times(v, 10, 180)
mmol_to_mgdl_glucose(v) == Times(v, 180, 10)
mgdl_to_mmol_trig(v) == Times(v, 100, 8857)
mmol_to_mgdl_trig(v) == Times(v, 8857, 100)
mgdl_to_mmol_chol(v) == Times(v, 100, 3867)
mmol_to_mgdl_chol(v) == Times(v, 3867, 100)
\* creatinine in mg/dL is kept in ten-thousandths (it feeds the eGFR powers)
umol_to_mgdl_creatinine(v) == Times(v, 1000, 884)

\* BMI(h_cm, w_kg), in hundredths
BMI(h_cm, w_kg) ==
    IF ~Truthy(h_cm) \/ ~Truthy(w_kg) THEN Null
    ELSE Num((w_kg.v * 1000000) \div (h_cm.v * h_cm.v))

\* WHtR(waist_cm, h_cm), in hundredths
WHtR(waist_cm, h_cm) ==
    IF ~Truthy(waist_cm) \/ ~Truthy(h_cm) THEN Null
    ELSE Num((waist_cm.v * 100) \div h_cm.v)

\* Derived.HOMA_IR: glucose and insulin in hundredths; null * x is 0 * x
HOMA_IR(glucose, insulin, unit) ==
    IF IsNullish(glucose) \/ IsNullish(insulin) THEN Null
    ELSE LET g == IF unit = "mmol/L" THEN mmol_to_mgdl_glucose(glucose) ELSE glucose
         IN  Num((g.v * insulin.v) \div 40500)

\* Derived.TyG, for arguments that are missing or numbers >= 0.  Math.log is
\* tabulated, floor(100 * ln(t * g / 2)), for the values (mg/dL, hundredths)
\* the calls of the model pass: <<t, g, TyG>>; Math.log(0) is -Infinity.
TyG(trig, glucose, trigUnit, gluUnit) ==
    IF IsNullish(trig) \/ IsNullish(glucose) THEN Null
    ELSE LET t == IF trigUnit = "mmol/L" THEN mmol_to_mgdl_trig(trig) ELSE trig
             g == IF gluUnit = "mmol/L" THEN mmol_to_mgdl_glucose(glucose) ELSE glucose
             table ==
          { <<170, 500, 144>>, <<170, 9000, 433>>, <<170, 162000, 722>>, <<15000, 500, 592>>,
            <<15000, 9000, 881>>, <<15000, 162000, 1170>>, <<15056, 500, 593>>, <<15056, 9000, 882>>,
            <<15056, 162000, 1171>>, <<1328550, 500, 1041>>, <<1328550, 9000, 1330>>, <<1328550, 162000, 1619>> }
         IN  IF t.v = 0 \/ g.v = 0 THEN NegInf
             ELSE Num((CHOOSE r \in table : r[1] = t.v /\ r[2] = g.v)[3])

\* Derived.AIP, for arguments that are missing or numbers >= 0.  Math.log10
\* is tabulated, floor(100 * log10(T / H)): <<T, H, AIP>>; x/0 is Infinity
\* for x > 0 and NaN for x = 0, and Math.log10(0) is -Infinity.
AIP_NoZeroGuard(trig, hdl, unit) ==
    IF IsNullish(trig) \/ IsNullish(hdl) THEN Null
    ELSE IF hdl.v = 0 THEN (IF trig.v = 0 THEN NaN ELSE PosInf)
    ELSE LET T == IF unit = "mmol/L" THEN mmol_to_mgdl_trig(trig) ELSE trig
             H == IF unit = "mmol/L" THEN mmol_to_mgdl_chol(hdl) ELSE hdl
             table ==
          { <<170, 130, 11>>, <<170, 5000, -147>>, <<170, 5027, -148>>, <<170, 193350, -306>>,
            <<15000, 130, 206>>, <<15000, 5000, 47>>, <<15000, 5027, 47>>, <<15000, 193350, -112>>,
            <<15056, 130, 206>>, <<15056, 5000, 47>>, <<15056, 5027, 47>>, <<15056, 193350, -111>>,
            <<1328550, 130, 400>>, <<1328550, 5000, 242>>, <<1328550, 5027, 242>>, <<1328550, 193350, 83>> }
         IN  IF T.v = 0 THEN NegInf
             ELSE Num((CHOOSE r \in table : r[1] = T.v /\ r[2] = H.v)[3])
AIP(trig, hdl, unit) ==
    IF IsNullish(trig) \/ IsNullish(hdl) \/ hdl = Num(0) THEN Null
    ELSE LET T == IF unit = "mmol/L" THEN mmol_to_mgdl_trig(trig) ELSE trig
             H == IF unit = "mmol/L" THEN mmol_to_mgdl_chol(hdl) ELSE hdl
             table ==
          { <<170, 130, 11>>, <<170, 5000, -147>>, <<170, 5027, -148>>, <<170, 193350, -306>>,
            <<15000, 130, 206>>, <<15000, 5000, 47>>, <<15000, 5027, 47>>, <<15000, 193350, -112>>,
            <<15056, 130, 206>>, <<15056, 5000, 47>>, <<15056, 5027, 47>>, <<15056, 193350, -111>>,
            <<1328550, 130, 400>>, <<1328550, 5000, 242>>, <<1328550, 5027, 242>>, <<1328550, 193350, 83>> }
         IN  IF T.v = 0 THEN NegInf
             ELSE Num((CHOOSE r \in table : r[1] = T.v /\ r[2] = H.v)[3])

\* Derived.VAI: waist in cm, bmi, trig and hdl in hundredths; the result in
\* hundredths.  waist/(39.68 + 1.88*bmi) is waist*10000/(396800 + 188*bmi)
\* on these units, kept in hundredths, and (TG/1.03) * (1.31/HDL) is
\* TG*131 / (103*HDL).
VAI(sex, waist_cm, bmi, trig, hdl, unit) ==
    IF ~Truthy(waist_cm) \/ ~Truthy(bmi) \/ ~Truthy(trig) \/ ~Truthy(hdl) THEN Null
    ELSE LET TG == IF unit = "mg/dL" THEN mgdl_to_mmol_trig(trig) ELSE trig
             HDL == IF unit = "mg/dL" THEN mgdl_to_mmol_chol(hdl) ELSE hdl
         IN  IF StartsWithM(sex)
             THEN Num((((waist_cm.v * 1000000) \div (396800 + 188 * bmi.v)) * TG.v * 131)
                      \div (103 * HDL.v))
             ELSE Num((((waist_cm.v * 1000000) \div (365800 + 189 * bmi.v)) * TG.v * 152)
                      \div (81 * HDL.v))

\* The conversions of Units on IEEE doubles.  A double is written as the
\* three 21-bit groups of its bit pattern, <<high, middle, low>>, so that two
\* doubles are equal exactly when the tuples are, and neighbouring doubles
\* differ by one in the low group.  Each row <<fn, v, fn(v)>> is the
\* quotient v/18.0, v/88.57, v/38.67, v/88.4 or the product v*18.0, ...
\* rounded as the division and the multiplication of doubles round it, for
\* the arguments
\*   mgdl_to_mmol_glucose     90.0, 90.02, 90.17
\*   mmol_to_mgdl_glucose     5.0, 7.2, 7.3
\*   mgdl_to_mmol_trig        150.0, 182.0, 187.0
\*   mmol_to_mgdl_trig        1.5, 1.51, 1.53
\*   mgdl_to_mmol_chol        150.0, 159.0, 164.0
\*   mmol_to_mgdl_chol        4.0, 6.7
\*   umol_to_mgdl_creatinine  70.0, 93.0, 98.0
\*   mgdl_to_umol_creatinine  0.8, 0.91, 0.92
\* and for the converted values.
UnitsDoubles ==
    {
      <<"mgdl_to_mmol_glucose", <<1054112, 0, 0>>, <<1049856, 0, 0>>>>,
      <<"mmol_to_mgdl_glucose", <<1049856, 0, 0>>, <<1054112, 0, 0>>>>,
      <<"mgdl_to_mmol_glucose", <<1054112, 671088, 1342177>>, <<1049856, 596523, 493996>>>>,
      <<"mmol_to_mgdl_glucose", <<1049856, 596523, 493996>>, <<1054112, 671088, 1342178>>>>,
      <<"mgdl_to_mmol_glucose", <<1054114, 1509949, 922747>>, <<1049858, 876143, 1053236>>>>,
      <<"mmol_to_mgdl_glucose", <<1049858, 876143, 1053236>>, <<1054114, 1509949, 922746>>>>,
      <<"mmol_to_mgdl_glucose", <<1050419, 419430, 838861>>, <<1054732, 1677721, 1258291>>>>,
      <<"mgdl_to_mmol_glucose", <<1054732, 1677721, 1258291>>, <<1050419, 419430, 838860>>>>,
      <<"mmol_to_mgdl_glucose", <<1050444, 1677721, 1258291>>, <<1054747, 419430, 838861>>>>,
      <<"mgdl_to_mmol_glucose", <<1054747, 419430, 838861>>, <<1050444, 1677721, 1258292>>>>,
      <<"mgdl_to_mmol_trig", <<1054896, 0, 0>>, <<1048262, 464560, 1019098>>>>,
      <<"mmol_to_mgdl_trig", <<1048262, 464560, 1019098>>, <<1054896, 0, 0>>>>,
      <<"mgdl_to_mmol_trig", <<1055152, 0, 0>>, <<1048604, 197947, 590291>>>>,
      <<"mmol_to_mgdl_trig", <<1048604, 197947, 590291>>, <<1055152, 0, 1>>>>,
      <<"mgdl_to_mmol_trig", <<1055192, 0, 0>>, <<1048632, 2093126, 1585946>>>>,
      <<"mmol_to_mgdl_trig", <<1048632, 2093126, 1585946>>, <<1055191, 2097151, 2097151>>>>,
      <<"mmol_to_mgdl_trig", <<1048064, 0, 0>>, <<1054758, 1761607, 1426063>>>>,
      <<"mgdl_to_mmol_trig", <<1054758, 1761607, 1426063>>, <<1048064, 0, 0>>>>,
      <<"mmol_to_mgdl_trig", <<1048074, 503316, 1006633>>, <<1054765, 1941123, 1868982>>>>,
      <<"mgdl_to_mmol_trig", <<1054765, 1941123, 1868982>>, <<1048074, 503316, 1006634>>>>,
      <<"mmol_to_mgdl_trig", <<1048094, 1509949, 922747>>, <<1054780, 203004, 657667>>>>,
      <<"mgdl_to_mmol_trig", <<1054780, 203004, 657667>>, <<1048094, 1509949, 922748>>>>,
      <<"mgdl_to_mmol_chol", <<1054896, 0, 0>>, <<1049538, 74840, 377454>>>>,
      <<"mmol_to_mgdl_chol", <<1049538, 74840, 377454>>, <<1054896, 0, 0>>>>,
      <<"mgdl_to_mmol_chol", <<1054968, 0, 0>>, <<1049628, 1256013, 955026>>>>,
      <<"mmol_to_mgdl_chol", <<1049628, 1256013, 955026>>, <<1054968, 0, 1>>>>,
      <<"mgdl_to_mmol_chol", <<1055008, 0, 0>>, <<1049661, 1466975, 2079798>>>>,
      <<"mmol_to_mgdl_chol", <<1049661, 1466975, 2079798>>, <<1055008, 0, 1>>>>,
      <<"mmol_to_mgdl_chol", <<1049600, 0, 0>>, <<1054933, 922746, 1845494>>>>,
      <<"mgdl_to_mmol_chol", <<1054933, 922746, 1845494>>, <<1049600, 0, 0>>>>,
      <<"mmol_to_mgdl_chol", <<1050291, 419430, 838861>>, <<1055756, 746586, 234881>>>>,
      <<"mgdl_to_mmol_chol", <<1055756, 746586, 234881>>, <<1050291, 419430, 838860>>>>,
      <<"umol_to_mgdl_creatinine", <<1053792, 0, 0>>, <<1047125, 1508810, 1499321>>>>,
      <<"mgdl_to_umol_creatinine", <<1047125, 1508810, 1499321>>, <<1053792, 0, 0>>>>,
      <<"umol_to_mgdl_creatinine", <<1054160, 0, 0>>, <<1047605, 597830, 1385449>>>>,
      <<"mgdl_to_umol_creatinine", <<1047605, 597830, 1385449>>, <<1054160, 0, 1>>>>,
      <<"umol_to_mgdl_creatinine", <<1054240, 0, 0>>, <<1047663, 427021, 1888385>>>>,
      <<"mgdl_to_umol_creatinine", <<1047663, 427021, 1888385>>, <<1054239, 2097151, 2097151>>>>,
      <<"mgdl_to_umol_creatinine", <<1047142, 838860, 1677722>>, <<1053803, 1090519, 83887>>>>,
      <<"umol_to_mgdl_creatinine", <<1053803, 1090519, 83887>>, <<1047142, 838860, 1677722>>>>,
      <<"mgdl_to_umol_creatinine", <<1047367, 1426063, 754975>>, <<1053959, 218103, 1694499>>>>,
      <<"umol_to_mgdl_creatinine", <<1053959, 218103, 1694499>>, <<1047367, 1426063, 754974>>>>,
      <<"mgdl_to_umol_creatinine", <<1047388, 335544, 671089>>, <<1053973, 520093, 1459618>>>>,
      <<"umol_to_mgdl_creatinine", <<1053973, 520093, 1459618>>, <<1047388, 335544, 671088>>>>,
      <<"mmol_to_mgdl_trig", <<1049538, 74840, 377454>>, <<1056094, 510865, 1208831>>>>,
      <<"mgdl_to_mmol_chol", <<1055152, 0, 0>>, <<1049780, 1807010, 1515242>>>>,
      <<"mmol_to_mgdl_trig", <<1049780, 1807010, 1515242>>, <<1056387, 871508, 991360>>>>,
      <<"mgdl_to_mmol_chol", <<1055192, 0, 0>>, <<1049813, 2017973, 542862>>>>,
      <<"mmol_to_mgdl_trig", <<1049813, 2017973, 542862>>, <<1056433, 469106, 1940420>>>>
    }

Units_CholForTrig(fn, v) ==
    (CHOOSE r \in UnitsDoubles :
        r[1] = (IF fn = "mgdl_to_mmol_trig" THEN "mgdl_to_mmol_chol" ELSE fn) /\ r[2] = v)[3]
Units(fn, v) == (CHOOSE r \in UnitsDoubles : r[1] = fn /\ r[2] = v)[3]

-----------------------------------------------------------------------------
(* Family history adjustment.  fh is FhMissing (undefined) or an object    *)
(* [k |-> "obj", first, second, third]; percentages in thousandths.        *)

FhMissing == [k |-> "undefined", first |-> Undefined, second |-> Undefined,
              third |-> Undefined]
Fh(f, s, t) == [k |-> "obj", first |-> f, second |-> s, third |-> t]

familyHistoryAdj_NoClamp(basePct, fh) ==
    IF IsNullish(basePct) \/ fh.k # "obj" THEN basePct
    ELSE Num((basePct.v * (100 + OrElse(fh.first, Num(0)).v * 10
                               + OrElse(fh.second, Num(0)).v * 5
                               + OrElse(fh.third, Num(0)).v * 2)) \div 100)

familyHistoryAdj_NullAsZero(basePct, fh) ==
    IF fh.k # "obj" THEN basePct
    ELSE Num(MinOf({95000, (ToNumber(basePct).v
                             * (100 + OrElse(fh.first, Num(0)).v * 10
                                    + OrElse(fh.second, Num(0)).v * 5
                                    + OrElse(fh.third, Num(0)).v * 2)) \div 100}))

familyHistoryAdj(basePct, fh) ==
    IF IsNullish(basePct) \/ fh.k # "obj" THEN basePct
    ELSE LET rel == 100 + OrElse(fh.first, Num(0)).v * 10
                        + OrElse(fh.second, Num(0)).v * 5
                        + OrElse(fh.third, Num(0)).v * 2
             out == (basePct.v * rel) \div 100
         IN  Num(MinOf({95000, out}))

-----------------------------------------------------------------------------
(* Metabolic Syndrome (ATP III) *)

Criterion(n, p) == [name |-> n, pass |-> p]

\* 1) abdominal obesity
WaistFlag_Gt(male, waist_cm) ==
    IF male THEN GtN(waist_cm, 102) ELSE GtN(waist_cm, 88)
WaistFlag(male, waist_cm) ==
    IF male THEN GeN(waist_cm, 102) ELSE GeN(waist_cm, 88)

\* 2) triglycerides >= 150 mg/dL
TrigFlag(trig_mgdl) == ~IsNullish(trig_mgdl) /\ GeN(trig_mgdl, 15000)

\* 3) low HDL
HdlFlag(male, hdl_mgdl) ==
    IF male THEN LtN(hdl_mgdl, 4000) ELSE LtN(hdl_mgdl, 5000)

\* 4) BP >= 130/85
BpFlag(sbp, dbp) == GeN(sbp, 130) \/ GeN(dbp, 85)

\* 5) glucose >= 100 mg/dL or HbA1c >= 5.7
GlyFlag(glu_mgdl, hba1c_pct) ==
    \/ ~IsNullish(glu_mgdl) /\ GeN(glu_mgdl, 10000)
    \/ ~IsNullish(hba1c_pct) /\ GeN(hba1c_pct, 570)

Diagnosis_Gt3(count) == count > 3
Diagnosis(count) == count >= 3

MetabolicSyndrome(sex, waist_cm, triglycerides, trigUnit, hdl, hdlUnit, sbp, dbp, glucose, gluUnit, hba1c_pct) ==
    LET male == StartsWithM(sex)
        trig_mgdl == IF trigUnit = "mmol/L" THEN mmol_to_mgdl_trig(triglycerides)
                     ELSE triglycerides
        hdl_mgdl == IF hdlUnit = "mmol/L" THEN mmol_to_mgdl_chol(hdl) ELSE hdl
        glu_mgdl == IF gluUnit = "mmol/L" THEN mmol_to_mgdl_glucose(glucose)
                    ELSE glucose
        criteria == << Criterion("waist", WaistFlag(male, waist_cm)),
                       Criterion("triglycerides", TrigFlag(trig_mgdl)),
                       Criterion("hdl", HdlFlag(male, hdl_mgdl)),
                       Criterion("bp", BpFlag(sbp, dbp)),
                       Criterion("glucose", GlyFlag(glu_mgdl, hba1c_pct)) >>
        count == Len(SelectSeq(criteria, LAMBDA c : c.pass))
    IN  [count |-> count, criteria |-> criteria, diagnosis |-> Diagnosis(count)]

-----------------------------------------------------------------------------
(* Framingham general CVD: points -> 10-year percentage *)

ageBandsM == << <<20,34,-9>>, <<35,39,-4>>, <<40,44,0>>, <<45,49,3>>, <<50,54,6>>,
                <<55,59,8>>, <<60,64,10>>, <<65,69,11>>, <<70,74,12>>, <<75,79,13>> >>
ageBandsF == << <<20,34,-7>>, <<35,39,-3>>, <<40,44,0>>, <<45,49,3>>, <<50,54,6>>,
                <<55,59,8>>, <<60,64,10>>, <<65,69,12>>, <<70,74,14>>, <<75,79,16>> >>

\* for (const [lo,hi,p] of bands){ if (x>=lo && x<=hi){ pts+=p; break; } }
\* the bounds of a band are multiplied by scale to meet x's fixed point
BandPoints(bands, x, scale) ==
    LET hit == {i \in 1..Len(bands) :
                   GeN(x, bands[i][1] * scale) /\ LeN(x, bands[i][2] * scale)}
    IN  IF hit = {} THEN 0 ELSE bands[MinOf(hit)][3]

tcTable(isMale) ==
    IF isMale THEN
      [ r1 |-> << <<160,199,4>>, <<200,239,7>>, <<240,279,9>>, <<280,1000,11>> >>,
        r2 |-> << <<160,199,3>>, <<200,239,5>>, <<240,279,6>>, <<280,1000,8>> >>,
        r3 |-> << <<160,199,2>>, <<200,239,3>>, <<240,279,4>>, <<280,1000,5>> >>,
        r4 |-> << <<160,199,1>>, <<200,239,1>>, <<240,279,2>>, <<280,1000,3>> >>,
        r5 |-> << <<160,199,0>>, <<200,239,0>>, <<240,279,1>>, <<280,1000,1>> >> ]
    ELSE
      [ r1 |-> << <<160,199,4>>, <<200,239,8>>, <<240,279,11>>, <<280,1000,13>> >>,
        r2 |-> << <<160,199,3>>, <<200,239,6>>, <<240,279,8>>, <<280,1000,10>> >>,
        r3 |-> << <<160,199,2>>, <<200,239,4>>, <<240,279,5>>, <<280,1000,7>> >>,
        r4 |-> << <<160,199,1>>, <<200,239,2>>, <<240,279,3>>, <<280,1000,4>> >>,
        r5 |-> << <<160,199,1>>, <<200,239,1>>, <<240,279,2>>, <<280,1000,2>> >> ]

\* the age-decade key: r1 = "20-39", r2 = "40-49", r3 = "50-59", r4 = "60-69",
\* r5 = "70-79"
tcKey(age) ==
    IF LeN(age, 39) THEN "r1" ELSE IF LeN(age, 49) THEN "r2"
    ELSE IF LeN(age, 59) THEN "r3" ELSE IF LeN(age, 69) THEN "r4" ELSE "r5"

\* tc_mgdl in hundredths
tcPoints(male, age, tc_mgdl) ==
    IF GeN(tc_mgdl, 16000) THEN BandPoints(tcTable(male)[tcKey(age)], tc_mgdl, 100)
    ELSE 0

\* hdl_mgdl in hundredths
hdlPoints(hdl_mgdl) ==
    IF IsNullish(hdl_mgdl) THEN 0
    ELSE IF GeN(hdl_mgdl, 6000) THEN -1
    ELSE IF GeN(hdl_mgdl, 5000) THEN 0
    ELSE IF GeN(hdl_mgdl, 4000) THEN 1
    ELSE 2

sbpPts(sbp, treated, male) ==
    IF male THEN
        IF treated THEN
            IF LtN(sbp, 120) THEN 0 ELSE IF LeN(sbp, 129) THEN 1
            ELSE IF LeN(sbp, 139) THEN 2 ELSE IF LeN(sbp, 159) THEN 2 ELSE 3
        ELSE
            IF LtN(sbp, 120) THEN 0 ELSE IF LeN(sbp, 129) THEN 0
            ELSE IF LeN(sbp, 139) THEN 1 ELSE IF LeN(sbp, 159) THEN 1 ELSE 2
    ELSE
        IF treated THEN
            IF LtN(sbp, 120) THEN 0 ELSE IF LeN(sbp, 129) THEN 3
            ELSE IF LeN(sbp, 139) THEN 4 ELSE IF LeN(sbp, 159) THEN 5 ELSE 6
        ELSE
            IF LtN(sbp, 120) THEN 0 ELSE IF LeN(sbp, 129) THEN 1
            ELSE IF LeN(sbp, 139) THEN 2 ELSE IF LeN(sbp, 159) THEN 3 ELSE 4

smokerPoints(male, age) ==
    IF male THEN
        IF LeN(age, 39) THEN 8 ELSE IF LeN(age, 49) THEN 5
        ELSE IF LeN(age, 59) THEN 3 ELSE IF LeN(age, 69) THEN 1 ELSE 1
    ELSE
        IF LeN(age, 39) THEN 9 ELSE IF LeN(age, 49) THEN 7
        ELSE IF LeN(age, 59) THEN 4 ELSE IF LeN(age, 69) THEN 2 ELSE 1

\* points -> risk maps (percent)
mapM == (-100 :> 1) @@ (-1 :> 1) @@
        [p \in 0..21 |-> <<1,1,1,1,1,2,2,3,4,5,6,8,10,12,16,20,25,31,37,45,53,63>>[p + 1]]
mapF == (-100 :> 1) @@ (-1 :> 1) @@
        [p \in 0..21 |-> <<1,1,1,1,1,1,1,2,2,2,3,4,5,6,8,11,14,17,22,27,33,40>>[p + 1]]

\* Object.keys(map).map(k=>+k).sort((a,b)=>a-b)
RECURSIVE SortedKeys(_)
SortedKeys(S) ==
    IF S = {} THEN << >> ELSE <<MinOf(S)>> \o SortedKeys(S \ {MinOf(S)})

\* let chosen = keys[0]; for (const k of keys){ if (pts>=k) chosen = k; }
RECURSIVE ChooseKeyFrom(_, _, _, _)
ChooseKeyFrom(keys, i, chosen, pts) ==
    IF i > Len(keys) THEN chosen
    ELSE ChooseKeyFrom(keys, i + 1, IF pts >= keys[i] THEN keys[i] ELSE chosen, pts)

ChooseKey_Ceiling(keys, pts) ==
    IF \E i \in 1..Len(keys) : keys[i] >= pts
    THEN keys[MinOf({i \in 1..Len(keys) : keys[i] >= pts})]
    ELSE keys[Len(keys)]
ChooseKey(keys, pts) == ChooseKeyFrom(keys, 1, keys[1], pts)

FraminghamTotal(age, sex, tc_mgdl, hdl_mgdl, sbp, bp_treated, smoker, diabetes) ==
    LET male == StartsWithM(sex)
    IN  BandPoints(IF male THEN ageBandsM ELSE ageBandsF, age, 1)
        + tcPoints(male, age, tc_mgdl)
        + hdlPoints(hdl_mgdl)
        + sbpPts(OrElse(sbp, Num(0)), bp_treated, male)
        + (IF smoker THEN smokerPoints(male, age) ELSE 0)
        + (IF diabetes THEN (IF male THEN 2 ELSE 4) ELSE 0)

\* Framingham.points({...}): [points, chosen key, risk_pct in thousandths]
FraminghamPoints(age, sex, tc_mgdl, hdl_mgdl, sbp, bp_treated, smoker, diabetes) ==
    LET male == StartsWithM(sex)
        pts == FraminghamTotal(age, sex, tc_mgdl, hdl_mgdl, sbp, bp_treated, smoker, diabetes)
        table == IF male THEN mapM ELSE mapF
        chosen == ChooseKey(SortedKeys(DOMAIN table), pts)
        risk == IF table[chosen] # 0 THEN table[chosen] ELSE 1
    IN  [points |-> pts, chosen |-> chosen, risk_pct |-> Num(risk * 1000)]

-----------------------------------------------------------------------------
(* FINDRISC, CAIDE, COPD-PS, KDIGO, Cancer: percentages in thousandths *)

\* if (s<=11) risk=1; else if (s<=14) risk=4; else if (s<=20) risk=17; else risk=33
FindriscRisk_Lt(s) == IF s < 11 THEN 1 ELSE IF s < 14 THEN 4 ELSE IF s < 20 THEN 17 ELSE 33
FindriscRisk(s) == IF s <= 11 THEN 1 ELSE IF s <= 14 THEN 4 ELSE IF s <= 20 THEN 17 ELSE 33

\* bmi in hundredths; family_history is "first", "second" or "none" (null)
FINDRISC(age, bmi, waist_cm, daily_activity, veg_daily, meds_htn, high_glucose_history, family_history) ==
    LET s == (IF LtN(age, 45) THEN 0 ELSE IF LeN(age, 54) THEN 2
              ELSE IF LeN(age, 64) THEN 3 ELSE 4)
           + (IF LtN(bmi, 2500) THEN 0 ELSE IF LtN(bmi, 3000) THEN 1 ELSE 3)
           + (IF LtN(waist_cm, 94) THEN 0 ELSE IF LtN(waist_cm, 102) THEN 3 ELSE 4)
           + (IF daily_activity THEN 0 ELSE 2)
           + (IF veg_daily THEN 0 ELSE 1)
           + (IF meds_htn THEN 2 ELSE 0)
           + (IF high_glucose_history THEN 5 ELSE 0)
           + (IF family_history = "first" THEN 5
              ELSE IF family_history = "second" THEN 3 ELSE 0)
    IN  [score |-> s, risk_pct |-> Num(FindriscRisk(s) * 1000),
         band |-> riskColor(Num(FindriscRisk(s) * 1000))]

\* the tiers of lines 1095-1097, in thousandths of a percent
CaideRisk_Lt(s) ==
    IF s < 5 THEN 1000 ELSE IF s < 6 THEN 1900 ELSE IF s < 7 THEN 4200
    ELSE IF s < 8 THEN 7400 ELSE IF s < 9 THEN 14000
    ELSE IF s < 10 THEN 19600 ELSE IF s < 11 THEN 31700
    ELSE IF s < 12 THEN 52600 ELSE 100000
CaideRisk(s) ==
    IF s <= 5 THEN 1000 ELSE IF s <= 6 THEN 1900 ELSE IF s <= 7 THEN 4200
    ELSE IF s <= 8 THEN 7400 ELSE IF s <= 9 THEN 14000
    ELSE IF s <= 10 THEN 19600 ELSE IF s <= 11 THEN 31700
    ELSE IF s <= 12 THEN 52600 ELSE 100000

\* tc_mmol in hundredths
CAIDE(age, sex, education_years, sbp, bmi, tc_mmol, physically_active) ==
    LET s == (IF GeN(age, 47) /\ LeN(age, 53) THEN 3 ELSE IF GtN(age, 53) THEN 4 ELSE 0)
           + (IF StartsWithM(sex) THEN 1 ELSE 0)
           + (IF ~IsNullish(education_years) /\ LtN(education_years, 10) THEN 2 ELSE 0)
           + (IF ~IsNullish(sbp) /\ GeN(sbp, 140) THEN 2 ELSE 0)
           + (IF ~IsNullish(bmi) /\ GeN(bmi, 3000) THEN 2 ELSE 0)
           + (IF ~IsNullish(tc_mmol) /\ GeN(tc_mmol, 650) THEN 2 ELSE 0)
           + (IF ~physically_active THEN 1 ELSE 0)
    IN  [score |-> s, risk_pct |-> Num(CaideRisk(s)), band |-> riskColor(Num(CaideRisk(s)))]

COPD_PS(score) ==
    LET risk == IF score <= 4 THEN 5 ELSE IF score <= 6 THEN 15
                ELSE IF score <= 8 THEN 25 ELSE 35
    IN  [score |-> score, risk_pct |-> Num(risk * 1000)]

\* Math.min(10, Math.max(0, Math.round((pack_years||0)/5) + (smoker_now?2:0)))
\* for a whole pack_years; Math.round(x) is floor(x + 0.5)
CopdScore_NoCap(pack_years, smoker_now) ==
    ((2 * pack_years + 5) \div 10) + (IF smoker_now THEN 2 ELSE 0)
CopdScore(pack_years, smoker_now) ==
    MinOf({10, MaxOf({0, ((2 * pack_years + 5) \div 10) + (IF smoker_now THEN 2 ELSE 0)})})

KDIGOgrid ==
    [ G1 |-> [A1 |-> 5, A2 |-> 10, A3 |-> 20],
      G2 |-> [A1 |-> 7, A2 |-> 15, A3 |-> 25],
      G3a |-> [A1 |-> 10, A2 |-> 20, A3 |-> 35],
      G3b |-> [A1 |-> 15, A2 |-> 30, A3 |-> 45],
      G4 |-> [A1 |-> 25, A2 |-> 45, A3 |-> 60],
      G5 |-> [A1 |-> 60, A2 |-> 75, A3 |-> 90] ]

\* egfr and acr_mg_g in hundredths; the category `${g}-${a}` is <<g, a>>
KDIGO_GtThresholds(egfr, acr_mg_g) ==
    IF IsNullish(egfr) \/ IsNullish(acr_mg_g)
    THEN [category |-> <<"none", "none">>, risk_pct |-> Null, band |-> riskColor(NaN)]
    ELSE LET a == IF LtN(acr_mg_g, 3000) THEN "A1"
                  ELSE IF LtN(acr_mg_g, 30000) THEN "A2" ELSE "A3"
             g == IF GtN(egfr, 9000) THEN "G1" ELSE IF GtN(egfr, 6000) THEN "G2"
                  ELSE IF GtN(egfr, 4500) THEN "G3a" ELSE IF GtN(egfr, 3000) THEN "G3b"
                  ELSE IF GtN(egfr, 1500) THEN "G4" ELSE "G5"
             risk == Num(KDIGOgrid[g][a] * 1000)
         IN  [category |-> <<g, a>>, risk_pct |-> risk, band |-> riskColor(risk)]
KDIGO(egfr, acr_mg_g) ==
    IF IsNullish(egfr) \/ IsNullish(acr_mg_g)
    THEN [category |-> <<"none", "none">>, risk_pct |-> Null, band |-> riskColor(NaN)]
    ELSE LET a == IF LtN(acr_mg_g, 3000) THEN "A1"
                  ELSE IF LtN(acr_mg_g, 30000) THEN "A2" ELSE "A3"
             g == IF GeN(egfr, 9000) THEN "G1" ELSE IF GeN(egfr, 6000) THEN "G2"
                  ELSE IF GeN(egfr, 4500) THEN "G3a" ELSE IF GeN(egfr, 3000) THEN "G3b"
                  ELSE IF GeN(egfr, 1500) THEN "G4" ELSE "G5"
             risk == Num(KDIGOgrid[g][a] * 1000)
         IN  [category |-> <<g, a>>, risk_pct |-> risk, band |-> riskColor(risk)]

\* bmi in hundredths
CancerGeneral_GtAge(age, sex, smoker, alcohol_units, bmi, activity_days) ==
    LET b0 == IF GtN(age, 70) THEN 15000 ELSE IF GtN(age, 60) THEN 10000
              ELSE IF GtN(age, 50) THEN 6000 ELSE 2000
        b1 == b0 + (IF smoker THEN 5000 ELSE 0)
        b2 == b1 + (IF Truthy(alcohol_units) /\ GtN(alcohol_units, 14) THEN 2000 ELSE 0)
        b3 == b2 + (IF Truthy(bmi) /\ GeN(bmi, 3000) THEN 2000 ELSE 0)
        b4 == b3 - (IF Truthy(activity_days) /\ GeN(activity_days, 5) THEN 1000 ELSE 0)
    IN  [risk_pct |-> Num(MaxOf({500, b4}))]
CancerGeneral(age, sex, smoker, alcohol_units, bmi, activity_days) ==
    LET b0 == IF GeN(age, 70) THEN 15000 ELSE IF GeN(age, 60) THEN 10000
              ELSE IF GeN(age, 50) THEN 6000 ELSE 2000
        b1 == b0 + (IF smoker THEN 5000 ELSE 0)
        b2 == b1 + (IF Truthy(alcohol_units) /\ GtN(alcohol_units, 14) THEN 2000 ELSE 0)
        b3 == b2 + (IF Truthy(bmi) /\ GeN(bmi, 3000) THEN 2000 ELSE 0)
        b4 == b3 - (IF Truthy(activity_days) /\ GeN(activity_days, 5) THEN 1000 ELSE 0)
    IN  [risk_pct |-> Num(MaxOf({500, b4}))]

-----------------------------------------------------------------------------
(* eGFR CKD-EPI 2021.  The powers of line 1117 are not integer arithmetic:  *)
(* the value is tabulated, floor(egfr * 100), for the sexes, ages and       *)
(* creatinine values (mg/dL, ten-thousandths) the model's records hold.     *)
(* A row is <<male, age, creat_mgdl, egfr>>.                                *)

eGFRTable ==
    { <<TRUE, 30, 8000, 12209>>, <<TRUE, 30, 9049, 11706>>, <<TRUE, 30, 16968, 5505>>,
      <<TRUE, 50, 8000, 10781>>, <<TRUE, 50, 9049, 10337>>, <<TRUE, 50, 16968, 4861>>,
      <<TRUE, 60, 8000, 10131>>, <<TRUE, 60, 9049, 9714>>, <<TRUE, 60, 16968, 4568>>,
      <<TRUE, 62, 8000, 10006>>, <<TRUE, 62, 9049, 9593>>, <<TRUE, 62, 16968, 4511>>,
      <<TRUE, 72, 8000, 9402>>, <<TRUE, 72, 9049, 9015>>, <<TRUE, 72, 16968, 4239>>,
      <<FALSE, 30, 8000, 10158>>, <<FALSE, 30, 9049, 8762>>, <<FALSE, 30, 16968, 4120>>,
      <<FALSE, 50, 8000, 8970>>, <<FALSE, 50, 9049, 7737>>, <<FALSE, 50, 16968, 3638>>,
      <<FALSE, 60, 8000, 8429>>, <<FALSE, 60, 9049, 7271>>, <<FALSE, 60, 16968, 3419>>,
      <<FALSE, 62, 8000, 8325>>, <<FALSE, 62, 9049, 7181>>, <<FALSE, 62, 16968, 3377>>,
      <<FALSE, 72, 8000, 7823>>, <<FALSE, 72, 9049, 6748>>, <<FALSE, 72, 16968, 3173>>,
      <<TRUE, 30, 3500, 15672>>, <<TRUE, 30, 4500, 14526>>, <<TRUE, 30, 7000, 12712>>,
      <<TRUE, 30, 9000, 11783>>, <<TRUE, 50, 3500, 13839>>, <<TRUE, 50, 4500, 12827>>,
      <<TRUE, 50, 7000, 11225>>, <<TRUE, 50, 9000, 10404>>, <<FALSE, 30, 3500, 14092>>,
      <<FALSE, 30, 4500, 13264>>, <<FALSE, 30, 7000, 11924>>, <<FALSE, 30, 9000, 8819>>,
      <<FALSE, 50, 3500, 12444>>, <<FALSE, 50, 4500, 11712>>, <<FALSE, 50, 7000, 10529>>,
      <<FALSE, 50, 9000, 7788>> }

eGFR_CKD_EPI_2021_NoSexGuard(sex, age, creat_mgdl) ==
    IF IsNullish(creat_mgdl) \/ ~Truthy(age) THEN Null
    ELSE LET row == CHOOSE r \in eGFRTable :
                        r[1] = StartsWithM(sex) /\ r[2] = age.v /\ r[3] = creat_mgdl.v
         IN  Num(row[4])
eGFR_CKD_EPI_2021(sex, age, creat_mgdl) ==
    IF IsNullish(creat_mgdl) \/ ~Truthy(age) \/ sex = "" THEN Null
    ELSE LET row == CHOOSE r \in eGFRTable :
                        r[1] = StartsWithM(sex) /\ r[2] = age.v /\ r[3] = creat_mgdl.v
         IN  Num(row[4])

-----------------------------------------------------------------------------
(* Phenotypic Age.  Inputs in hundredths (age in years).  With all ten      *)
(* inputs finite the result is tabulated from lines 1158-1173 for the       *)
(* creatinine, glucose and age values the model's records hold, the other   *)
(* seven biomarkers being those of PhenoTypical; a row is                   *)
(* <<creatinine, glucose, age, floor(pheno_age*100), floor(mort*100000)>>.  *)
(* With an infinite input the sign of xb decides the IEEE result.           *)

PhenoTypical == [albumin_gL |-> 4200, crp_mgdl |-> 30, lymph_pct |-> 3000,
                 mcv_fl |-> 9000, rdw_pct |-> 1350, alp_uL |-> 7000,
                 wbc_10e3_uL |-> 650]

PhenoTable ==
    { <<8000, 611, 30, 3090, 840>>, <<8000, 611, 50, 4873, 4127>>, <<8000, 611, 62, 5943, 10472>>,
      <<8000, 611, 72, 6835, 21899>>, <<8000, 0, 30, 1767, 255>>, <<8000, 0, 50, 3550, 1270>>,
      <<8000, 0, 62, 4620, 3298>>, <<8000, 0, 72, 5512, 7220>>, <<8000, 527, 30, 2908, 713>>,
      <<8000, 527, 50, 4691, 3514>>, <<8000, 527, 62, 5761, 8961>>, <<8000, 527, 72, 6653, 18923>>,
      <<15000, 611, 30, 3828, 1628>>, <<15000, 611, 50, 5611, 7869>>, <<15000, 611, 62, 6681, 19353>>,
      <<15000, 611, 72, 7573, 38160>>, <<15000, 0, 30, 2504, 496>>, <<15000, 0, 50, 4287, 2454>>,
      <<15000, 0, 62, 5357, 6314>>, <<15000, 0, 72, 6249, 13561>>, <<15000, 527, 30, 3646, 1383>>,
      <<15000, 527, 50, 5429, 6719>>, <<15000, 527, 62, 6499, 16685>>, <<15000, 527, 72, 7391, 33496>> }

\* the same rows with crp_mgdl = -Infinity, which Math.max(crp_mgdl, 1e-9)
\* floors to 1e-9
PhenoFloorTable ==
    { <<8000, 611, 30, 1025, 131>>, <<8000, 611, 50, 2808, 652>>, <<8000, 611, 62, 3878, 1703>>,
      <<8000, 611, 72, 4770, 3766>>, <<8000, 0, 30, -299, 39>>, <<8000, 0, 50, 1485, 198>>,
      <<8000, 0, 62, 2555, 519>>, <<8000, 0, 72, 3446, 1157>>, <<8000, 527, 30, 843, 111>>,
      <<8000, 527, 50, 2626, 554>>, <<8000, 527, 62, 3696, 1447>>, <<8000, 527, 72, 4588, 3206>>,
      <<15000, 611, 30, 1762, 254>>, <<15000, 611, 50, 3546, 1265>>, <<15000, 611, 62, 4616, 3286>>,
      <<15000, 611, 72, 5507, 7194>>, <<15000, 0, 30, 439, 77>>, <<15000, 0, 50, 2222, 385>>,
      <<15000, 0, 62, 3292, 1008>>, <<15000, 0, 72, 4184, 2238>>, <<15000, 527, 30, 1580, 216>>,
      <<15000, 527, 50, 3364, 1074>>, <<15000, 527, 62, 4434, 2795>>, <<15000, 527, 72, 5325, 6139>> }

\* glucose values (mmol/L, hundredths) for which exp(xb) is so large that
\* mort rounds to 1 and Math.log(1 - mort) is -Infinity
PhenoSaturatedGlucose == {9500, 11000}

\* the sign with which an infinite input enters xb: <<name, sign>>
PhenoSign(i) == <<-1, 1, 1, 1, -1, 1, 1, 1, 1, 1>>[i]

PhenoMissing(v) == IsNullish(v) \/ IsNaN(v)

PhenotypicAge(albumin_gL, creatinine_umolL, glucose_mmolL, crp_mgdl, lymph_pct, mcv_fl, rdw_pct, alp_uL, wbc_10e3_uL, age_years) ==
    LET vals == <<albumin_gL, creatinine_umolL, glucose_mmolL, crp_mgdl, lymph_pct,
                  mcv_fl, rdw_pct, alp_uL, wbc_10e3_uL, age_years>>
        \* crp enters as Math.log(Math.max(crp_mgdl, 1e-9)): -Infinity is floored
        infs == {PhenoSign(i) * vals[i].v : i \in {j \in 1..10 : vals[j].k = "inf"
                                                    /\ ~(j = 4 /\ vals[j].v < 0)}}
    IN  IF \E i \in 1..10 : PhenoMissing(vals[i])
        THEN [pheno_age |-> Null, mortality_10yr_pct |-> Null]
        ELSE IF infs = {1, -1} THEN [pheno_age |-> NaN, mortality_10yr_pct |-> NaN]
        ELSE IF infs = {1} THEN [pheno_age |-> PosInf, mortality_10yr_pct |-> Num(100000)]
        ELSE IF infs = {-1} THEN [pheno_age |-> NegInf, mortality_10yr_pct |-> Num(0)]
        ELSE IF glucose_mmolL.v \in PhenoSaturatedGlucose
        THEN [pheno_age |-> PosInf, mortality_10yr_pct |-> Num(100000)]
        ELSE LET floored == crp_mgdl.k = "inf"
                 row == CHOOSE r \in (IF floored THEN PhenoFloorTable ELSE PhenoTable) :
                            /\ r[1] = creatinine_umolL.v
                            /\ r[2] = glucose_mmolL.v
                            /\ r[3] = age_years.v
                            /\ albumin_gL.v = PhenoTypical.albumin_gL
                            /\ floored \/ crp_mgdl.v = PhenoTypical.crp_mgdl
                            /\ lymph_pct.v = PhenoTypical.lymph_pct
                            /\ mcv_fl.v = PhenoTypical.mcv_fl
                            /\ rdw_pct.v = PhenoTypical.rdw_pct
                            /\ alp_uL.v = PhenoTypical.alp_uL
                            /\ wbc_10e3_uL.v = PhenoTypical.wbc_10e3_uL
             IN  [pheno_age |-> Num(row[4]), mortality_10yr_pct |-> Num(row[5])]

-----------------------------------------------------------------------------
(* Report.render: the inputs it gathers and the risks it computes.  The     *)
(* client record is flattened: demographics, biometrics, lifestyle, labs    *)
(* and family_history fields side by side; a string field that is absent    *)
(* is "", a family_history entry that is absent is FhMissing.               *)

\* client?.labs?.x_unit || (country==="Australia" ? "mmol/L" : "mg/dL")
CountryUnit(ctry) == IF ctry = "Australia" THEN "mmol/L" ELSE "mg/dL"

GatherInputs(c, ctry) ==
    LET tgU == IF c.triglycerides_unit # "" THEN c.triglycerides_unit ELSE CountryUnit(ctry)
        hdlU == IF c.hdl_unit # "" THEN c.hdl_unit ELSE tgU
    IN  [ sex |-> IF c.sex # "" THEN c.sex ELSE "Male",
          age |-> PlusOrElse(c.age, Num(50)),
          height_cm |-> PlusOrElse(c.height_cm, Num(170)),
          weight_kg |-> PlusOrElse(c.weight_kg, Num(70)),
          waist_cm |-> PlusOrElse(c.waist_cm, Num(90)),
          sbp |-> PlusOrElse(c.sbp, Num(120)),
          dbp |-> PlusOrElse(c.dbp, Num(80)),
          bp_treated |-> c.bp_treated,
          smoker_now |-> c.smoker = "Yes",
          pack_years |-> PlusOrElse(c.pack_years, Num(0)),
          pa_days |-> PlusOrElse(c.pa_days, Num(0)),
          veg_daily |-> c.veg_daily = "Yes",
          alcohol_units |-> PlusOrElse(c.alcohol_units, Num(0)),
          education_years |-> OrElse(c.education_years, Num(12)),
          gluU |-> IF c.glucose_unit # "" THEN c.glucose_unit ELSE CountryUnit(ctry),
          tgU |-> tgU, hdlU |-> hdlU,
          tcU |-> IF c.tc_unit # "" THEN c.tc_unit ELSE hdlU ]

\* tc!=null ? (tcU==="mmol/L" ? Units.mmol_to_mgdl_chol(tc) : tc) : null
CholMgdl(v, unit) ==
    IF IsNullish(v) THEN Null
    ELSE IF unit = "mmol/L" THEN mmol_to_mgdl_chol(v) ELSE v

\* let cvd = null; if (tc_mgdl!=null && hdl_mgdl!=null){ ... }
ReportCvd_NoGuard(c, in) ==
    familyHistoryAdj(FraminghamPoints(in.age, in.sex, CholMgdl(c.tc, in.tcU), CholMgdl(c.hdl, in.hdlU), in.sbp, in.bp_treated, in.smoker_now, ~IsNullish(c.hba1c_pct) /\ GeN(c.hba1c_pct, 650)).risk_pct, c.fh_cvd)
ReportCvd(c, in) ==
    LET tc_mgdl == CholMgdl(c.tc, in.tcU)
        hdl_mgdl == CholMgdl(c.hdl, in.hdlU)
    IN  IF ~IsNullish(tc_mgdl) /\ ~IsNullish(hdl_mgdl)
        THEN familyHistoryAdj(
                 FraminghamPoints(in.age, in.sex, tc_mgdl, hdl_mgdl, in.sbp,
                                  in.bp_treated, in.smoker_now,
                                  ~IsNullish(c.hba1c_pct) /\ GeN(c.hba1c_pct, 650)).risk_pct,
                 c.fh_cvd)
        ELSE Null

ReportFindriscBase(c, in, bmi) ==
    FINDRISC(in.age, bmi, in.waist_cm, GeN(in.pa_days, 5), in.veg_daily, in.bp_treated,
             \/ ~IsNullish(c.hba1c_pct) /\ GeN(c.hba1c_pct, 570)
             \/ IF in.gluU = "mg/dL" THEN GeN(c.glucose, 10000)
                ELSE ~IsNullish(c.glucose) /\ GeN(mmol_to_mgdl_glucose(c.glucose), 10000),
             IF Truthy(c.fh_t2d.first) THEN "first"
             ELSE IF Truthy(c.fh_t2d.second) THEN "second" ELSE "none").risk_pct

ReportCaide(c, in, bmi) ==
    CAIDE(in.age, in.sex, in.education_years, in.sbp, bmi,
          IF IsNullish(c.tc) THEN Null
          ELSE IF in.tcU = "mg/dL" THEN mgdl_to_mmol_chol(c.tc) ELSE c.tc,
          GeN(in.pa_days, 2)).risk_pct

ReportEgfr(c, in) ==
    eGFR_CKD_EPI_2021(in.sex, in.age,
        IF ~IsNullish(c.creatinine_umolL) THEN umol_to_mgdl_creatinine(c.creatinine_umolL)
        ELSE c.creatinine_mgdl)

\* (egfr!=null && acr!=null) ? KDIGO({egfr, acr_mg_g: acr}).risk_pct : null
ReportKdigoBase(c, egfr) ==
    IF ~IsNullish(egfr) /\ ~IsNullish(c.acr_mg_g) THEN KDIGO(egfr, c.acr_mg_g).risk_pct
    ELSE Null

ReportPheno(c, in) ==
    PhenotypicAge(c.albumin_gL, c.creatinine_umolL,
                  IF in.gluU = "mg/dL" THEN mgdl_to_mmol_glucose(c.glucose) ELSE c.glucose,
                  c.crp_mgdl, c.lymph_pct, c.mcv_fl, c.rdw_pct, c.alp_uL,
                  c.wbc_10e3_uL, in.age)

render(c, ctry) ==
    LET in == GatherInputs(c, ctry)
        bmi == BMI(in.height_cm, in.weight_kg)
        findr_base == ReportFindriscBase(c, in, bmi)
        copd_base == COPD_PS(CopdScore(in.pack_years.v, in.smoker_now)).risk_pct
        caide == ReportCaide(c, in, bmi)
        egfr == ReportEgfr(c, in)
        kdigo_base == ReportKdigoBase(c, egfr)
        cancer_base == CancerGeneral(in.age, in.sex, in.smoker_now, in.alcohol_units,
                                     bmi, in.pa_days).risk_pct
    IN  [ rendered |-> TRUE,
          inputs |-> in,
          bmi |-> bmi,
          cvd |-> ReportCvd(c, in),
          findr_base |-> findr_base,
          t2d |-> familyHistoryAdj(findr_base, c.fh_t2d),
          copd_score |-> CopdScore(in.pack_years.v, in.smoker_now),
          copd_base |-> copd_base,
          copd |-> familyHistoryAdj(copd_base, c.fh_copd),
          caide |-> caide,
          neuro |-> familyHistoryAdj(caide, c.fh_neuro),
          egfr |-> egfr,
          kdigo_base |-> kdigo_base,
          ckd |-> familyHistoryAdj(kdigo_base, c.fh_ckd),
          cancer_base |-> cancer_base,
          cancer |-> familyHistoryAdj(cancer_base, c.fh_cancer),
          pheno |-> ReportPheno(c, in),
          metasyn |-> MetabolicSyndrome(in.sex, in.waist_cm, c.triglycerides, in.tgU,
                                        c.hdl, in.hdlU, in.sbp, in.dbp, c.glucose,
                                        in.gluU, c.hba1c_pct) ]

-----------------------------------------------------------------------------
(* Lab parser (js/lab_parser.js): text.  A text is a sequence of            *)
(* one-character strings; the micro sign U+00B5 is written "u00B5" and the  *)
(* Greek mu U+03BC "u03BC".  Numbers read from text are in hundredths.      *)

Digits == <<"0", "1", "2", "3", "4", "5", "6", "7", "8", "9">>
UpperCase == <<"A", "B", "C", "D", "E", "F", "G", "H", "I", "J", "K", "L", "M",
               "N", "O", "P", "Q", "R", "S", "T", "U", "V", "W", "X", "Y", "Z">>
LowerCase == <<"a", "b", "c", "d", "e", "f", "g", "h", "i", "j", "k", "l", "m",
               "n", "o", "p", "q", "r", "s", "t", "u", "v", "w", "x", "y", "z">>

IsDigit(ch) == \E i \in 1..10 : Digits[i] = ch
DigitVal(ch) == (CHOOSE i \in 1..10 : Digits[i] = ch) - 1

\* String.prototype.toLowerCase, character by character
ToLowerCase(t) ==
    [i \in 1..Len(t) |->
        IF \E j \in 1..26 : UpperCase[j] = t[i]
        THEN LowerCase[CHOOSE j \in 1..26 : UpperCase[j] = t[i]]
        ELSE t[i]]

\* String.prototype.trim
RECURSIVE TrimLeft(_)
TrimLeft(t) == IF t # << >> /\ Head(t) = " " THEN TrimLeft(Tail(t)) ELSE t
RECURSIVE TrimRight(_)
TrimRight(t) ==
    IF t # << >> /\ t[Len(t)] = " " THEN TrimRight(SubSeq(t, 1, Len(t) - 1)) ELSE t
Trim(t) == TrimRight(TrimLeft(t))

\* String.prototype.includes
Includes(t, sub) ==
    \E i \in 1..(Len(t) - Len(sub) + 1) : SubSeq(t, i, i + Len(sub) - 1) = sub

\* parts.join(' ')
RECURSIVE JoinSpace(_)
JoinSpace(parts) ==
    IF parts = << >> THEN << >>
    ELSE IF Len(parts) = 1 THEN parts[1]
    ELSE parts[1] \o <<" ">> \o JoinSpace(Tail(parts))

\* norm(s): (s||'').toString().trim().toLowerCase()
norm(t) == ToLowerCase(Trim(t))

\* the length of the run of digits at the head of t
RECURSIVE DigitRun(_)
DigitRun(t) == IF t # << >> /\ IsDigit(Head(t)) THEN 1 + DigitRun(Tail(t)) ELSE 0

\* the value of a sequence of digits
RECURSIVE DigitsValue(_)
DigitsValue(t) ==
    IF t = << >> THEN 0 ELSE DigitsValue(SubSeq(t, 1, Len(t) - 1)) * 10 + DigitVal(t[Len(t)])

\* parseFloat(t) for a text of digits, "." and "-": the longest prefix that
\* is a decimal literal (sign, integer part, fraction), NaN when there is
\* none; in hundredths, further decimals dropped
parseFloat(t) ==
    LET neg == t # << >> /\ Head(t) = "-"
        body == IF neg THEN Tail(t) ELSE t
        ni == DigitRun(body)
        rest == SubSeq(body, ni + 1, Len(body))
        dot == rest # << >> /\ Head(rest) = "."
        nf == IF dot THEN DigitRun(Tail(rest)) ELSE 0
        frac == SubSeq(rest, 2, 1 + nf) \o <<"0", "0">>
        mag == DigitsValue(SubSeq(body, 1, ni)) * 100 + DigitsValue(SubSeq(frac, 1, 2))
    IN  IF ni = 0 /\ nf = 0 THEN NaN
        ELSE Num(IF neg THEN -mag ELSE mag)

\* a cell or a captured group holding text t
Str(t) == [k |-> "str", t |-> t]

\* num(v): null for a missing cell, else the number parseFloat reads after
\* every character other than digits, "." and "-" is removed, null when that
\* is not finite
num_KeepZero(v) ==
    IF IsNullish(v) THEN Null
    ELSE LET n == parseFloat(SelectSeq(v.t, LAMBDA ch : IsDigit(ch) \/ ch \in {".", "-"}))
         IN  IF IsFinite(n) THEN n ELSE Num(0)
num(v) ==
    IF IsNullish(v) THEN Null
    ELSE LET n == parseFloat(SelectSeq(v.t, LAMBDA ch : IsDigit(ch) \/ ch \in {".", "-"}))
         IN  IF IsFinite(n) THEN n ELSE Null

\* detectCreatinine(v, unitHint): micromol/L, hundredths
detectCreatinine_Gt15Converted(v, unitHint) ==
    LET txt == norm(unitHint)
        val == num(v)
    IN  IF \/ Includes(txt, <<"u00B5", "m", "o", "l">>) \/ Includes(txt, <<"u", "m", "o", "l">>)
           \/ Includes(txt, <<"u03BC", "m", "o", "l">>)
           \/ Includes(txt, <<"m", "i", "c", "r", "o", "m", "o", "l">>)
        THEN val
        ELSE IF val = Null THEN Null ELSE Num((val.v * 884) \div 10)
detectCreatinine(v, unitHint) ==
    LET txt == norm(unitHint)
        val == num(v)
    IN  IF \/ Includes(txt, <<"u00B5", "m", "o", "l">>) \/ Includes(txt, <<"u", "m", "o", "l">>)
           \/ Includes(txt, <<"u03BC", "m", "o", "l">>)
           \/ Includes(txt, <<"m", "i", "c", "r", "o", "m", "o", "l">>)
        THEN val
        ELSE IF Includes(txt, <<"m", "g", "/", "d", "l">>)
        THEN IF val # Null THEN Num((val.v * 884) \div 10) ELSE Null
        ELSE IF val = Null THEN Null
        ELSE IF val.v > 1500 THEN val ELSE Num((val.v * 884) \div 10)

-----------------------------------------------------------------------------
(* Lab parser: KEYMAP, setOut and the tabular row loops.  The output        *)
(* mapping `out` is a record over every key the parser can write: an        *)
(* analyte that is not set is Undefined, a unit tag that is not set is "".  *)

\* the canonical key of each KEYMAP rule, in list order
KeymapKey ==
    << "hba1c_pct", "glucose", "tc", "hdl", "ldl", "triglycerides", "creatinine_umolL",
       "acr_mg_g", "albumin_gL", "crp_mgdl", "wbc_10e3_uL", "rdw_pct", "mcv_fl",
       "lymph_pct", "alp_uL", "sbp", "dbp" >>

\* the KEYMAP regular expressions, evaluated on the normalized labels the
\* model's files use: <<label, the rules whose expression matches it>>
LabelTable ==
    { <<<<"h", "b", "a", "1", "c">>, {1}>>,
      <<<<"g", "l", "u", "c", "o", "s", "e">>, {2}>>,
      <<<<"f", "a", "s", "t", "i", "n", "g", " ", "g", "l", "u", "c", "o", "s", "e">>, {2}>>,
      <<<<"c", "h", "o", "l", "e", "s", "t", "e", "r", "o", "l", ",", " ", "t", "o", "t", "a", "l">>, {3}>>,
      <<<<"t", "o", "t", "a", "l", " ", "c", "h", "o", "l", "e", "s", "t", "e", "r", "o", "l">>, {}>>,
      <<<<"c", "h", "o", "l", " ", "t", "o", "t", "a", "l">>, {3}>>,
      <<<<"h", "d", "l">>, {4}>>,
      <<<<"l", "d", "l">>, {5}>>,
      <<<<"t", "r", "i", "g", "l", "y", "c", "e", "r", "i", "d", "e", "s">>, {6}>>,
      <<<<"t", "g">>, {6}>>,
      <<<<"c", "r", "e", "a", "t", "i", "n", "i", "n", "e">>, {7}>>,
      <<<<"c", "r", "e", "a", "t", "i", "n", "i", "n", "e", " ", "(", "u", "m", "o", "l", "/", "l", ")">>, {7}>>,
      <<<<"c", "r", "e", "a", "t", "i", "n", "i", "n", "e", " ", "m", "g", "/", "d", "l">>, {7}>>,
      <<<<"a", "c", "r">>, {8}>>,
      <<<<"a", "l", "b", "u", "m", "i", "n", "/", "c", "r", "e", "a", "t", "i", "n", "i", "n", "e", " ", "r", "a", "t", "i", "o">>, {8}>>,
      <<<<"a", "l", "b", "u", "m", "i", "n">>, {9}>>,
      <<<<"c", "r", "p">>, {10}>>,
      <<<<"c", "-", "r", "e", "a", "c", "t", "i", "v", "e", " ", "p", "r", "o", "t", "e", "i", "n">>, {10}>>,
      <<<<"w", "b", "c">>, {11}>>,
      <<<<"r", "d", "w">>, {12}>>,
      <<<<"m", "c", "v">>, {13}>>,
      <<<<"l", "y", "m", "p", "h", "o", "c", "y", "t", "e", "s">>, {14}>>,
      <<<<"a", "l", "p">>, {15}>>,
      <<<<"s", "b", "p">>, {16}>>,
      <<<<"d", "b", "p">>, {17}>>,
      <<<<"h", "d", "l", "/", "t", "r", "i", "g", "l", "y", "c", "e", "r", "i", "d", "e", " ", "r", "a", "t", "i", "o">>, {4, 6}>>,
      <<<<"l", "d", "l", " ", "+", " ", "t", "r", "i", "g", "l", "y", "c", "e", "r", "i", "d", "e">>, {5, 6}>>,
      <<<<"w", "b", "c", " ", "l", "y", "m", "p", "h", "o", "c", "y", "t", "e">>, {11, 14}>>,
      <<<<"g", "l", "u", "c", "o", "s", "e", " ", "(", "m", "m", "o", "l", "/", "l", ")">>, {2}>>,
      <<<<"n", "o", "t", "e", "s">>, {}>>,
      <<<<"t", "g", "l">>, {}>> }

\* re.test(k) for the i-th rule
KeymapTest(i, k) == \E e \in LabelTable : e[1] = k /\ i \in e[2]

\* the unit tags: (key, tag field, kind for guessUnitFromValue)
UnitField ==
    [ glucose |-> "glucose_unit", triglycerides |-> "triglycerides_unit",
      hdl |-> "hdl_unit", tc |-> "tc_unit" ]
UnitKind == [glucose |-> "glucose", triglycerides |-> "trig", hdl |-> "chol", tc |-> "chol"]

EmptyOut ==
    [ hba1c_pct |-> Undefined, glucose |-> Undefined, tc |-> Undefined, hdl |-> Undefined,
      ldl |-> Undefined, triglycerides |-> Undefined, creatinine_umolL |-> Undefined,
      acr_mg_g |-> Undefined, albumin_gL |-> Undefined, crp_mgdl |-> Undefined,
      wbc_10e3_uL |-> Undefined, rdw_pct |-> Undefined, mcv_fl |-> Undefined,
      lymph_pct |-> Undefined, alp_uL |-> Undefined, sbp |-> Undefined, dbp |-> Undefined,
      glucose_unit |-> "", triglycerides_unit |-> "", hdl_unit |-> "", tc_unit |-> "" ]

\* guessUnitFromValue(v, kind), v a number in hundredths
guessUnitFromValue(v, kind) ==
    CASE kind = "glucose" -> (IF LeN(v, 1500) THEN "mmol/L" ELSE "mg/dL")
      [] kind = "trig" -> (IF LeN(v, 500) THEN "mmol/L" ELSE "mg/dL")
      [] kind = "chol" -> (IF LeN(v, 1000) THEN "mmol/L" ELSE "mg/dL")

\* setOut(out, key, value, unit); unit "" is an absent (undefined) unit
setOut(out, key, value, unit) ==
    IF IsNullish(value) THEN out
    ELSE LET set == [out EXCEPT ![key] = value]
         IN  IF key \in DOMAIN UnitField
             THEN [set EXCEPT ![UnitField[key]] =
                      IF unit # "" THEN unit
                      ELSE IF out[UnitField[key]] # "" THEN out[UnitField[key]]
                      ELSE guessUnitFromValue(value, UnitKind[key])]
             ELSE set

\* the i-th rule's mapping function: [key, value, unit]
mapfn(i, v, u) ==
    [ key |-> KeymapKey[i],
      value |-> IF i = 7 THEN detectCreatinine(v, u) ELSE num(v),
      unit |-> IF i \in 2..6
               THEN (IF Includes(u, <<"m", "m", "o", "l">>) THEN "mmol/L" ELSE "mg/dL")
               ELSE "" ]

\* for (const [re, mapfn] of KEYMAP){ if (re.test(k)){ ...; setOut(...); break; } }
ruleLoop_LastMatch(out, k, v, u) ==
    LET hits == {i \in 1..Len(KeymapKey) : KeymapTest(i, k)}
    IN  IF hits = {} THEN out
        ELSE LET mapped == mapfn(MaxOf(hits), v, u)
             IN  setOut(out, mapped.key, mapped.value, mapped.unit)
ruleLoop(out, k, v, u) ==
    LET hits == {i \in 1..Len(KeymapKey) : KeymapTest(i, k)}
    IN  IF hits = {} THEN out
        ELSE LET mapped == mapfn(MinOf(hits), v, u)
             IN  setOut(out, mapped.key, mapped.value, mapped.unit)

\* one iteration of parseCSV's loop over the lines; cells is the line split
\* at its separators
csvRow(out, cells) ==
    LET trimmed == [i \in 1..Len(cells) |-> Trim(cells[i])]
        cols == SelectSeq(trimmed, LAMBDA c : c # << >>)
    IN  IF cols = << >> THEN out
        ELSE ruleLoop(out, norm(cols[1]),
                      IF Len(cols) >= 2 THEN Str(cols[2]) ELSE Str(<< >>),
                      norm(cols[1]) \o <<" ">> \o JoinSpace(Tail(cols)))

\* one iteration of parseXLSX's loop over the rows of a sheet
xlsxRow(out, row) ==
    IF row = << >> THEN out
    ELSE ruleLoop(out, norm(row[1]),
                  IF Len(row) >= 2 THEN Str(row[2]) ELSE Undefined,
                  IF Len(row) >= 3 /\ row[3] # << >> THEN row[3] ELSE row[1])

\* the index of the first digit of t (0: none) and the run of digits and
\* dots that starts there: what [^0-9]*([\d.]+) captures
FirstDigit(t) ==
    LET ds == {i \in 1..Len(t) : IsDigit(t[i])}
    IN  IF ds = {} THEN 0 ELSE MinOf(ds)
RECURSIVE NumRun(_)
NumRun(t) ==
    IF t # << >> /\ (IsDigit(Head(t)) \/ Head(t) = ".") THEN <<Head(t)>> \o NumRun(Tail(t)) ELSE << >>

StartsWith(t, p) == Len(t) >= Len(p) /\ SubSeq(t, 1, Len(p)) = p

\* re.exec(text) for the patterns LABEL[^0-9]*([\d.]+)\s*UNIT (flag i) of
\* parsePDFText.  The text is the words joined by single blanks (line 139);
\* digits stand only in numbers and in unit words, and a dot only inside a
\* number; the words are taken in lower case, as are the labels and units
\* (flag i).  A match starts at a word holding the label, captures the first
\* run of digits after it and needs the unit right after that run; the
\* leftmost start that matches is taken.  The result is the capture (0: no
\* match) as [at, run].
PdfExec(words, labels, units) ==
    LET hasUnit(t) == \E u \in units : StartsWith(t, u)
        numAt(i) ==
            LET js == {j \in (i + 1)..Len(words) : FirstDigit(words[j]) > 0}
            IN  IF js = {} THEN 0 ELSE MinOf(js)
        run(j) == NumRun(SubSeq(words[j], FirstDigit(words[j]), Len(words[j])))
        rest(j) == SubSeq(words[j], FirstDigit(words[j]) + Len(run(j)), Len(words[j]))
        ok(i) ==
            /\ \E l \in labels : Includes(words[i], l)
            /\ numAt(i) > 0
            /\ IF rest(numAt(i)) # << >> THEN hasUnit(rest(numAt(i)))
               ELSE numAt(i) < Len(words) /\ hasUnit(words[numAt(i) + 1])
        starts == {i \in 1..Len(words) : ok(i)}
    IN  IF starts = {} THEN [at |-> 0, run |-> << >>]
        ELSE [at |-> MinOf(starts), run |-> run(numAt(MinOf(starts)))]

\* find(re): m ? num(m[1]) : null, for a pattern whose first group is the number
find(words, labels, units) ==
    LET m == PdfExec(words, labels, units)
    IN  IF m.at = 0 THEN Null ELSE num(Str(m.run))

\* find(re) for the two total-cholesterol patterns, whose first group is the
\* label (Total\s+Cholesterol|Cholesterol,\s*Total): m[1] is the label text
findLabelGroup(words, labels, units) ==
    LET m == PdfExec(words, labels, units)
    IN  IF m.at = 0 THEN Null
        ELSE num(Str(CHOOSE l \in labels : Includes(words[m.at], l)))

MgdL == {<<"m", "g", "/", "d", "l">>}
MmolL == {<<"m", "m", "o", "l", "/", "l">>}
TcLabels == {<<"t", "o", "t", "a", "l", " ", "c", "h", "o", "l", "e", "s", "t", "e", "r", "o", "l">>, <<"c", "h", "o", "l", "e", "s", "t", "e", "r", "o", "l", ",", " ", "t", "o", "t", "a", "l">>, <<"c", "h", "o", "l", "e", "s", "t", "e", "r", "o", "l", ",", "t", "o", "t", "a", "l">>}
\* (?:x?10\^?3|10\^?3|10E3|10\*3)?\/?u?L
WbcUnits ==
    {a \o b \o c \o <<"l">> :
        a \in {<< >>, <<"x", "1", "0", "^", "3">>, <<"x", "1", "0", "3">>, <<"1", "0", "^", "3">>, <<"1", "0", "3">>, <<"1", "0", "e", "3">>, <<"1", "0", "*", "3">>},
        b \in {<< >>, <<"/">>}, c \in {<< >>, <<"u">>}}

\* v = find(mg/dL); if (v!=null) setOut(mg/dL); if (!out[key]){ v = find(mmol/L);
\* if (v!=null) setOut(mmol/L) }: <<"h", "d", "l">>, <<"l", "d", "l">> and triglycerides
pdfLipid(out, words, key, labels) ==
    LET v1 == find(words, labels, MgdL)
        o1 == setOut(out, key, v1, "mg/dL")
    IN  IF ~Truthy(o1[key]) THEN setOut(o1, key, find(words, labels, MmolL), "mmol/L") ELSE o1

\* the blocks of parsePDFText (lines 149-206) in order: the key written, the
\* label alternatives of its patterns and the units of its first (or only)
\* pattern
PdfBlocks ==
    << [kind |-> "glucose", key |-> "glucose", labels |-> {<<"g", "l", "u", "c", "o", "s", "e">>}, units |-> MgdL],
       [kind |-> "plain", key |-> "hba1c_pct", labels |-> {<<"h", "b", "a", "1", "c">>}, units |-> {<<"%">>}],
       [kind |-> "tc", key |-> "tc", labels |-> TcLabels, units |-> MgdL],
       [kind |-> "lipid", key |-> "hdl", labels |-> {<<"h", "d", "l">>}, units |-> MgdL],
       [kind |-> "lipid", key |-> "ldl", labels |-> {<<"l", "d", "l">>}, units |-> MgdL],
       [kind |-> "lipid", key |-> "triglycerides", labels |-> {<<"t", "r", "i", "g", "l", "y", "c", "e", "r", "i", "d", "e", "s">>}, units |-> MgdL],
       [kind |-> "creatinine", key |-> "creatinine_umolL", labels |-> {<<"c", "r", "e", "a", "t", "i", "n", "i", "n", "e">>}, units |-> {<<"m", "o", "l", "/", "l">>, <<"u", "m", "o", "l", "/", "l">>, <<"u00B5", "m", "o", "l", "/", "l">>, <<"u03BC", "m", "o", "l", "/", "l">>}],
       [kind |-> "plain", key |-> "acr_mg_g", labels |-> {<<"a", "l", "b", "u", "m", "i", "n", "/", "c", "r", "e", "a", "t", "i", "n", "i", "n", "e", " ", "r", "a", "t", "i", "o">>, <<"a", "l", "b", "u", "m", "i", "n", "c", "r", "e", "a", "t", "i", "n", "i", "n", "e", " ", "r", "a", "t", "i", "o">>, <<"a", "l", "b", "u", "m", "i", "n", "/", "c", "r", "e", "a", "t", "i", "n", "i", "n", "e", "r", "a", "t", "i", "o">>, <<"a", "l", "b", "u", "m", "i", "n", "c", "r", "e", "a", "t", "i", "n", "i", "n", "e", "r", "a", "t", "i", "o">>}, units |-> {<<"m", "g", "/", "g">>}],
       [kind |-> "plain", key |-> "albumin_gL", labels |-> {<<"a", "l", "b", "u", "m", "i", "n">>}, units |-> {<<"g", "/", "l">>}],
       [kind |-> "plain", key |-> "crp_mgdl", labels |-> {<<"c", "-", "r", "e", "a", "c", "t", "i", "v", "e", " ", "p", "r", "o", "t", "e", "i", "n">>, <<"c", "r", "e", "a", "c", "t", "i", "v", "e", " ", "p", "r", "o", "t", "e", "i", "n">>, <<"c", "-", "r", "e", "a", "c", "t", "i", "v", "e", "p", "r", "o", "t", "e", "i", "n">>, <<"c", "r", "e", "a", "c", "t", "i", "v", "e", "p", "r", "o", "t", "e", "i", "n">>}, units |-> MgdL],
       [kind |-> "plain", key |-> "wbc_10e3_uL", labels |-> {<<"w", "b", "c">>}, units |-> WbcUnits],
       [kind |-> "plain", key |-> "rdw_pct", labels |-> {<<"r", "d", "w">>}, units |-> {<<"%">>}],
       [kind |-> "plain", key |-> "mcv_fl", labels |-> {<<"m", "c", "v">>}, units |-> {<<"f", "l">>}],
       [kind |-> "plain", key |-> "lymph_pct", labels |-> {<<"l", "y", "m", "p", "h">>}, units |-> {<<"%">>}],
       [kind |-> "plain", key |-> "alp_uL", labels |-> {<<"a", "l", "k", "a", "l", "i", "n", "e", " ", "p", "h", "o", "s", "p", "h", "a", "t", "a", "s", "e">>, <<"a", "l", "k", "a", "l", "i", "n", "e", "p", "h", "o", "s", "p", "h", "a", "t", "a", "s", "e">>}, units |-> {<<"u", "/", "l">>}],
       [kind |-> "plain", key |-> "sbp", labels |-> {<<"s", "y", "s", "t", "o", "l", "i", "c">>}, units |-> {<<"m", "m", "h", "g">>}],
       [kind |-> "plain", key |-> "dbp", labels |-> {<<"d", "i", "a", "s", "t", "o", "l", "i", "c">>}, units |-> {<<"m", "m", "h", "g">>}] >>

\* one block of parsePDFText
pdfBlock(out, words, b) ==
    CASE b.kind = "glucose" ->
           LET v1 == find(words, b.labels, MgdL)
               o1 == setOut(out, "glucose", v1, "mg/dL")
               v2 == IF IsNullish(v1) THEN find(words, b.labels, MmolL) ELSE v1
           IN  IF ~IsNullish(v2) /\ ~Truthy(o1.glucose)
               THEN setOut(o1, "glucose", v2, "mmol/L") ELSE o1
      [] b.kind = "tc" ->
           LET o1 == setOut(out, "tc", findLabelGroup(words, b.labels, MgdL), "mg/dL")
           IN  IF ~Truthy(o1.tc)
               THEN setOut(o1, "tc", findLabelGroup(words, b.labels, MmolL), "mmol/L") ELSE o1
      [] b.kind = "lipid" -> pdfLipid(out, words, b.key, b.labels)
      [] b.kind = "creatinine" ->
           LET o1 == setOut(out, b.key, find(words, b.labels, b.units), "")
               v2 == find(words, b.labels, MgdL)
           IN  IF IsNullish(o1[b.key]) /\ ~IsNullish(v2)
               THEN setOut(o1, b.key, Num((v2.v * 884) \div 10), "") ELSE o1
      [] b.kind = "plain" -> setOut(out, b.key, find(words, b.labels, b.units), "")

\* the blocks from the i-th on, each working on the output of the one before
RECURSIVE pdfBlocksFrom(_, _, _)
pdfBlocksFrom(out, words, i) ==
    IF i > Len(PdfBlocks) THEN out
    ELSE CHOOSE r \in {pdfBlocksFrom(pdfBlock(o, words, PdfBlocks[i]), words, i + 1) : o \in {out}} : TRUE

\* the words in lower case
LowerWords(words) == [i \in 1..Len(words) |-> ToLowerCase(words[i])]

\* parsePDFText from line 141 on; words are the words of the text
parsePDFText(words) ==
    CHOOSE r \in {pdfBlocksFrom(EmptyOut, w, 1) : w \in {LowerWords(words)}} : TRUE

-----------------------------------------------------------------------------
(* Bounds and the inputs drawn for the operations *)

\* a client record differs from a profile in at most MaxDiff fields; a
\* PhenotypicAge call from the typical panel in at most MaxDiff arguments
MaxDiff == 1
\* relatives counted per degree in a direct familyHistoryAdj call
MaxRelatives == 2

NoFh == Fh(Num(0), Num(0), Num(0))

\* the record startIntake builds for a manual intake
DefaultClient ==
    [ country |-> "Australia", sex |-> "Male", age |-> Num(50),
      education_years |-> Num(12), height_cm |-> Num(170), weight_kg |-> Num(70),
      waist_cm |-> Num(90), sbp |-> Num(120), dbp |-> Num(80), bp_treated |-> FALSE,
      smoker |-> "No", pack_years |-> Num(0), pa_days |-> Num(3), veg_daily |-> "Yes",
      alcohol_units |-> Num(0),
      glucose |-> Undefined, glucose_unit |-> "", hba1c_pct |-> Undefined,
      triglycerides |-> Undefined, triglycerides_unit |-> "",
      hdl |-> Undefined, hdl_unit |-> "", tc |-> Undefined, tc_unit |-> "",
      acr_mg_g |-> Undefined, creatinine_umolL |-> Undefined,
      creatinine_mgdl |-> Undefined,
      albumin_gL |-> Undefined, crp_mgdl |-> Undefined, lymph_pct |-> Undefined,
      mcv_fl |-> Undefined, rdw_pct |-> Undefined, alp_uL |-> Undefined,
      wbc_10e3_uL |-> Undefined,
      fh_cvd |-> NoFh, fh_t2d |-> NoFh, fh_cancer |-> NoFh, fh_copd |-> NoFh,
      fh_neuro |-> NoFh, fh_ckd |-> NoFh ]

\* a saved client with a full panel in mg/dL and every CAIDE item scoring
HighRiskClient ==
    [ country |-> "USA", sex |-> "Male", age |-> Num(62),
      education_years |-> Num(8), height_cm |-> Num(170), weight_kg |-> Num(95),
      waist_cm |-> Num(110), sbp |-> Num(150), dbp |-> Num(90), bp_treated |-> TRUE,
      smoker |-> "Yes", pack_years |-> Num(30), pa_days |-> Num(0), veg_daily |-> "No",
      alcohol_units |-> Num(20),
      glucose |-> Num(11000), glucose_unit |-> "mg/dL", hba1c_pct |-> Num(660),
      triglycerides |-> Num(16000), triglycerides_unit |-> "mg/dL",
      hdl |-> Num(3500), hdl_unit |-> "mg/dL", tc |-> Num(26000), tc_unit |-> "mg/dL",
      acr_mg_g |-> Num(2000), creatinine_umolL |-> Num(8000),
      creatinine_mgdl |-> Undefined,
      albumin_gL |-> Num(PhenoTypical.albumin_gL), crp_mgdl |-> Num(PhenoTypical.crp_mgdl),
      lymph_pct |-> Num(PhenoTypical.lymph_pct), mcv_fl |-> Num(PhenoTypical.mcv_fl),
      rdw_pct |-> Num(PhenoTypical.rdw_pct), alp_uL |-> Num(PhenoTypical.alp_uL),
      wbc_10e3_uL |-> Num(PhenoTypical.wbc_10e3_uL),
      fh_cvd |-> Fh(Num(2), Num(0), Num(0)), fh_t2d |-> Fh(Num(1), Num(1), Num(0)),
      fh_cancer |-> Fh(Num(0), Num(1), Num(1)), fh_copd |-> NoFh,
      fh_neuro |-> Fh(Num(1), Num(0), Num(0)), fh_ckd |-> NoFh ]

\* a record collected by the intake form (an empty lab field is null), in
\* mmol/L, creatinine given in mg/dL
FormClient ==
    [ country |-> "Australia", sex |-> "Female", age |-> Num(60),
      education_years |-> Num(12), height_cm |-> Num(165), weight_kg |-> Num(60),
      waist_cm |-> Num(80), sbp |-> Num(118), dbp |-> Num(75), bp_treated |-> FALSE,
      smoker |-> "No", pack_years |-> Num(0), pa_days |-> Num(5), veg_daily |-> "Yes",
      alcohol_units |-> Num(3),
      glucose |-> Num(520), glucose_unit |-> "mmol/L", hba1c_pct |-> Null,
      triglycerides |-> Num(120), triglycerides_unit |-> "mmol/L",
      hdl |-> Num(160), hdl_unit |-> "mmol/L", tc |-> Num(500), tc_unit |-> "mmol/L",
      acr_mg_g |-> Num(2000), creatinine_umolL |-> Null,
      creatinine_mgdl |-> Num(8000),
      albumin_gL |-> Null, crp_mgdl |-> Null, lymph_pct |-> Null,
      mcv_fl |-> Null, rdw_pct |-> Null, alp_uL |-> Null, wbc_10e3_uL |-> Null,
      fh_cvd |-> NoFh, fh_t2d |-> Fh(Num(0), Num(1), Num(0)), fh_cancer |-> NoFh,
      fh_copd |-> NoFh, fh_neuro |-> NoFh, fh_ckd |-> NoFh ]

Profiles == {DefaultClient, HighRiskClient, FormClient}

UnitTags == <<"", "mg/dL", "mmol/L">>
MissingOr(v) == <<Undefined, Null, v>>
FhAlt == <<FhMissing, Fh(Num(1), Num(0), Num(0)), Fh(Num(0), Num(1), Num(0))>>

\* the fields of a record, and the values a field of a stored record may
\* hold instead of the profile's
FieldSeq ==
    << "country", "sex", "age", "education_years", "height_cm", "weight_kg",
       "waist_cm", "sbp", "dbp", "bp_treated", "smoker", "pack_years", "pa_days",
       "veg_daily", "alcohol_units", "glucose", "glucose_unit", "hba1c_pct",
       "triglycerides", "triglycerides_unit", "hdl", "hdl_unit", "tc", "tc_unit",
       "acr_mg_g", "creatinine_umolL", "creatinine_mgdl", "albumin_gL", "crp_mgdl",
       "lymph_pct", "mcv_fl", "rdw_pct", "alp_uL", "wbc_10e3_uL",
       "fh_cvd", "fh_t2d", "fh_cancer", "fh_copd", "fh_neuro", "fh_ckd" >>

AltValues ==
    [ country |-> <<"", "Australia", "USA">>, sex |-> <<"", "Male", "Female">>,
      age |-> <<Undefined, Null, Num(0), Num(30), Num(72)>>,
      education_years |-> MissingOr(Num(8)),
      height_cm |-> <<Undefined, Null, Num(0), Num(180)>>,
      weight_kg |-> <<Undefined, Null, Num(0), Num(100)>>,
      waist_cm |-> <<Undefined, Null, Num(0), Num(100)>>,
      sbp |-> <<Undefined, Null, Num(0), Num(145)>>,
      dbp |-> <<Undefined, Null, Num(0), Num(90)>>,
      bp_treated |-> <<FALSE, TRUE>>,
      smoker |-> <<"", "Yes">>, pack_years |-> <<Undefined, Num(-10), Num(12), Num(13), Num(45), Num(200)>>,
      pa_days |-> <<Undefined, Num(0)>>, veg_daily |-> <<"", "No">>,
      alcohol_units |-> <<Undefined, Num(20)>>,
      glucose |-> MissingOr(Num(9500)), glucose_unit |-> UnitTags,
      hba1c_pct |-> MissingOr(Num(700)),
      triglycerides |-> MissingOr(Num(16000)), triglycerides_unit |-> UnitTags,
      hdl |-> MissingOr(Num(3500)), hdl_unit |-> UnitTags,
      tc |-> MissingOr(Num(26000)), tc_unit |-> UnitTags,
      acr_mg_g |-> MissingOr(Num(35000)),
      creatinine_umolL |-> MissingOr(Num(15000)),
      creatinine_mgdl |-> MissingOr(Num(8000)),
      albumin_gL |-> <<Undefined, Null>>, crp_mgdl |-> <<Undefined, Null>>,
      lymph_pct |-> <<Undefined, Null>>, mcv_fl |-> <<Undefined, Null>>,
      rdw_pct |-> <<Undefined, Null>>, alp_uL |-> <<Undefined, Null>>,
      wbc_10e3_uL |-> <<Undefined, Null>>,
      fh_cvd |-> FhAlt, fh_t2d |-> FhAlt, fh_cancer |-> FhAlt, fh_copd |-> FhAlt,
      fh_neuro |-> FhAlt, fh_ckd |-> FhAlt ]

\* a change <<i, j>> gives field FieldSeq[i] the j-th of its other values; a
\* change list names at most n fields, in the order of FieldSeq
Changes(from) ==
    {<<i, j>> : i \in from..Len(FieldSeq), j \in 1..6} \cap
    {ch \in (from..Len(FieldSeq)) \X (1..6) : ch[2] <= Len(AltValues[FieldSeq[ch[1]]])}

RECURSIVE ChangeLists(_, _)
ChangeLists(from, n) ==
    IF n = 0 THEN {<< >>}
    ELSE {<< >>} \cup UNION { {<<ch>> \o rest : rest \in ChangeLists(ch[1] + 1, n - 1)} :
                               ch \in Changes(from) }

RECURSIVE Changed(_, _)
Changed(r, chs) ==
    IF chs = << >> THEN r
    ELSE Changed([r EXCEPT ![FieldSeq[chs[1][1]]] = AltValues[FieldSeq[chs[1][1]]][chs[1][2]]],
                 Tail(chs))

\* every percentage a risk model can return (thousandths)
ModelPercents ==
    {mapM[p] * 1000 : p \in DOMAIN mapM} \cup {mapF[p] * 1000 : p \in DOMAIN mapF}
    \cup {1000, 4000, 17000, 33000} \cup {5000, 15000, 25000, 35000}
    \cup {1000, 1900, 4200, 7400, 14000, 19600, 31700, 52600, 100000}
    \cup {KDIGOgrid[g][a] * 1000 : g \in DOMAIN KDIGOgrid, a \in {"A1", "A2", "A3"}}
    \cup {500, 2000, 6000, 10000, 15000, 24000}

BasePcts == {Null, Undefined} \cup {Num(p) : p \in ModelPercents}
Counts == {Undefined} \cup {Num(n) : n \in 0..MaxRelatives}
FhArgs == {FhMissing} \cup {Fh(f, s, t) : f \in Counts, s \in Counts, t \in Counts}

\* MetabolicSyndrome arguments, criterion by criterion: waist; <<triglycerides,
\* unit>>; <<hdl, unit>>; <<sbp, dbp>>; <<glucose, unit, hba1c>>.  The Probe
\* sets hold every missing form and the values on either side of a threshold,
\* the Core sets a missing, a failing and a passing value.
WaistProbe == {Undefined, Null, Num(87), Num(88), Num(101), Num(102), Num(105)}
TrigProbe ==
    ({Undefined, Null, Num(14900), Num(15000), Num(16000)} \X {"mg/dL"})
    \cup ({Undefined, Null, Num(169), Num(170)} \X {"mmol/L"})
HdlProbe ==
    ({Undefined, Null, Num(3500), Num(3999), Num(4000), Num(4999), Num(5000)} \X {"mg/dL"})
    \cup ({Undefined, Null, Num(103), Num(104), Num(129), Num(130)} \X {"mmol/L"})
BpProbe ==
    {Undefined, Null, Num(129), Num(130), Num(135)}
    \X {Undefined, Null, Num(80), Num(84), Num(85)}
GlyProbe ==
    (({Undefined, Null, Num(9900), Num(10000), Num(11000)} \X {"mg/dL"})
     \cup ({Undefined, Null, Num(555), Num(556)} \X {"mmol/L"}))
    \X {Undefined, Null, Num(560), Num(570)}

WaistCore == {Null, Num(80), Num(105)}
TrigCore == {<<Null, "mg/dL">>, <<Num(10000), "mg/dL">>, <<Num(16000), "mg/dL">>}
HdlCore == {<<Null, "mg/dL">>, <<Num(6000), "mg/dL">>, <<Num(3500), "mg/dL">>}
BpCore == {<<Null, Null>>, <<Num(110), Num(70)>>, <<Num(135), Num(80)>>}
GlyCore == { <<<<Null, "mg/dL">>, Null>>, <<<<Num(9000), "mg/dL">>, Null>>,
             <<<<Num(11000), "mg/dL">>, Null>> }

MetSArgs(sex, w, t, h, b, g) ==
    [ sex |-> sex, waist_cm |-> w, triglycerides |-> t[1], trigUnit |-> t[2],
      hdl |-> h[1], hdlUnit |-> h[2], sbp |-> b[1], dbp |-> b[2],
      glucose |-> g[1][1], gluUnit |-> g[1][2], hba1c_pct |-> g[2] ]

\* the all-failing and the all-passing numeric contexts of a probe
MetSContexts ==
    { <<Num(80), <<Num(10000), "mg/dL">>, <<Num(6000), "mg/dL">>, <<Num(110), Num(70)>>,
        <<<<Num(9000), "mg/dL">>, Null>> >>,
      <<Num(105), <<Num(16000), "mg/dL">>, <<Num(3500), "mg/dL">>, <<Num(135), Num(80)>>,
        <<<<Num(11000), "mg/dL">>, Null>> >> }

MetSParts ==
    (WaistCore \X TrigCore \X HdlCore \X BpCore \X GlyCore)
    \cup {<<w, c[2], c[3], c[4], c[5]>> : w \in WaistProbe, c \in MetSContexts}
    \cup {<<c[1], t, c[3], c[4], c[5]>> : t \in TrigProbe, c \in MetSContexts}
    \cup {<<c[1], c[2], h, c[4], c[5]>> : h \in HdlProbe, c \in MetSContexts}
    \cup {<<c[1], c[2], c[3], b, c[5]>> : b \in BpProbe, c \in MetSContexts}
    \cup {<<c[1], c[2], c[3], c[4], g>> : g \in GlyProbe, c \in MetSContexts}

Sexes == {"Male", "Female", ""}

\* Framingham.points arguments (cholesterol in hundredths of mg/dL)
FramAges == {Undefined, Num(19), Num(30), Num(37), Num(45), Num(55), Num(65), Num(77), Num(80)}
FramTc == {Null, Undefined, Num(15000), Num(18000), Num(19950), Num(26000), Num(30000)}
FramHdl == {Null, Undefined, Num(3500), Num(4500), Num(6500)}
FramSbp == {Undefined, Num(125), Num(165)}

\* PhenotypicAge arguments: the typical panel at age 62, with up to n of the
\* ten arguments from position `from` on missing or not finite
PhenoPanel ==
    << Num(PhenoTypical.albumin_gL), Num(8000), Num(611), Num(PhenoTypical.crp_mgdl),
       Num(PhenoTypical.lymph_pct), Num(PhenoTypical.mcv_fl), Num(PhenoTypical.rdw_pct),
       Num(PhenoTypical.alp_uL), Num(PhenoTypical.wbc_10e3_uL), Num(62) >>
NotANumber == {Null, Undefined, NaN, PosInf, NegInf}

RECURSIVE PhenoArgs(_, _, _)
PhenoArgs(args, from, n) ==
    IF n = 0 THEN {args}
    ELSE {args} \cup UNION { PhenoArgs([args EXCEPT ![i] = v], i + 1, n - 1) :
                              i \in from..10, v \in NotANumber }

\* creatinine rows: values on both sides of 15, with and without a unit
CreatinineRows ==
    { <<<<"C", "r", "e", "a", "t", "i", "n", "i", "n", "e">>, <<"1", ".", "0">>>>,
      <<<<"C", "r", "e", "a", "t", "i", "n", "i", "n", "e">>, <<"1", ".", "0">>, <<"m", "g", "/", "d", "L">>>>,
      <<<<"C", "r", "e", "a", "t", "i", "n", "i", "n", "e">>, <<"1", ".", "0">>, <<"u00B5", "m", "o", "l", "/", "L">>>>,
      <<<<"C", "r", "e", "a", "t", "i", "n", "i", "n", "e">>, <<"1", ".", "0">>, <<"u", "m", "o", "l", "/", "L">>>>,
      <<<<"C", "r", "e", "a", "t", "i", "n", "i", "n", "e">>, <<"8", "0">>>>,
      <<<<"C", "r", "e", "a", "t", "i", "n", "i", "n", "e">>, <<"8", "0">>, <<"m", "g", "/", "d", "L">>>>,
      <<<<"C", "r", "e", "a", "t", "i", "n", "i", "n", "e">>, <<"8", "0">>, <<"u00B5", "m", "o", "l", "/", "L">>>>,
      <<<<"C", "r", "e", "a", "t", "i", "n", "i", "n", "e">>, <<"8", "0">>, <<"u", "m", "o", "l", "/", "L">>>>,
      <<<<"C", "r", "e", "a", "t", "i", "n", "i", "n", "e">>, <<"1", "5">>>>,
      <<<<"C", "r", "e", "a", "t", "i", "n", "i", "n", "e">>, <<"1", "5">>, <<"m", "g", "/", "d", "L">>>>,
      <<<<"C", "r", "e", "a", "t", "i", "n", "i", "n", "e">>, <<"1", "5">>, <<"u00B5", "m", "o", "l", "/", "L">>>>,
      <<<<"C", "r", "e", "a", "t", "i", "n", "i", "n", "e">>, <<"1", "5">>, <<"u", "m", "o", "l", "/", "L">>>>,
      <<<<"C", "r", "e", "a", "t", "i", "n", "i", "n", "e">>, <<"1", "5", ".", "0", "1">>>>,
      <<<<"C", "r", "e", "a", "t", "i", "n", "i", "n", "e">>, <<"1", "5", ".", "0", "1">>, <<"m", "g", "/", "d", "L">>>>,
      <<<<"C", "r", "e", "a", "t", "i", "n", "i", "n", "e">>, <<"1", "5", ".", "0", "1">>, <<"u00B5", "m", "o", "l", "/", "L">>>>,
      <<<<"C", "r", "e", "a", "t", "i", "n", "i", "n", "e">>, <<"1", "5", ".", "0", "1">>, <<"u", "m", "o", "l", "/", "L">>>>,
      <<<<"C", "r", "e", "a", "t", "i", "n", "i", "n", "e">>, <<"a", "b", "c">>>>,
      <<<<"C", "r", "e", "a", "t", "i", "n", "i", "n", "e">>, <<"a", "b", "c">>, <<"m", "g", "/", "d", "L">>>>,
      <<<<"C", "r", "e", "a", "t", "i", "n", "i", "n", "e">>, <<"a", "b", "c">>, <<"u00B5", "m", "o", "l", "/", "L">>>>,
      <<<<"C", "r", "e", "a", "t", "i", "n", "i", "n", "e">>, <<"a", "b", "c">>, <<"u", "m", "o", "l", "/", "L">>>>,
      <<<<"C", "r", "e", "a", "t", "i", "n", "i", "n", "e", " ", "(", "u", "m", "o", "l", "/", "L", ")">>, <<"8", "0">>>>,
      <<<<"C", "r", "e", "a", "t", "i", "n", "i", "n", "e", " ", "m", "g", "/", "d", "L">>, <<"1", ".", "0">>>> }

\* rows of the analytes that carry a unit tag, around the magnitude thresholds
UnitRows ==
    { <<<<"G", "l", "u", "c", "o", "s", "e">>, <<"5", ".", "2">>>>,
      <<<<"G", "l", "u", "c", "o", "s", "e">>, <<"5", ".", "2">>, <<"m", "g", "/", "d", "L">>>>,
      <<<<"G", "l", "u", "c", "o", "s", "e">>, <<"5", ".", "2">>, <<"m", "m", "o", "l", "/", "L">>>>,
      <<<<"G", "l", "u", "c", "o", "s", "e">>, <<"1", "5">>>>,
      <<<<"G", "l", "u", "c", "o", "s", "e">>, <<"1", "5">>, <<"m", "g", "/", "d", "L">>>>,
      <<<<"G", "l", "u", "c", "o", "s", "e">>, <<"1", "5">>, <<"m", "m", "o", "l", "/", "L">>>>,
      <<<<"G", "l", "u", "c", "o", "s", "e">>, <<"1", "5", ".", "0", "1">>>>,
      <<<<"G", "l", "u", "c", "o", "s", "e">>, <<"1", "5", ".", "0", "1">>, <<"m", "g", "/", "d", "L">>>>,
      <<<<"G", "l", "u", "c", "o", "s", "e">>, <<"1", "5", ".", "0", "1">>, <<"m", "m", "o", "l", "/", "L">>>>,
      <<<<"G", "l", "u", "c", "o", "s", "e">>, <<"9", "5">>>>,
      <<<<"G", "l", "u", "c", "o", "s", "e">>, <<"9", "5">>, <<"m", "g", "/", "d", "L">>>>,
      <<<<"G", "l", "u", "c", "o", "s", "e">>, <<"9", "5">>, <<"m", "m", "o", "l", "/", "L">>>>,
      <<<<"G", "l", "u", "c", "o", "s", "e">>, <<"0">>>>,
      <<<<"G", "l", "u", "c", "o", "s", "e">>, <<"0">>, <<"m", "g", "/", "d", "L">>>>,
      <<<<"G", "l", "u", "c", "o", "s", "e">>, <<"0">>, <<"m", "m", "o", "l", "/", "L">>>>,
      <<<<"T", "r", "i", "g", "l", "y", "c", "e", "r", "i", "d", "e", "s">>, <<"1", ".", "7">>>>,
      <<<<"T", "r", "i", "g", "l", "y", "c", "e", "r", "i", "d", "e", "s">>, <<"1", ".", "7">>, <<"m", "g", "/", "d", "L">>>>,
      <<<<"T", "r", "i", "g", "l", "y", "c", "e", "r", "i", "d", "e", "s">>, <<"1", ".", "7">>, <<"m", "m", "o", "l", "/", "L">>>>,
      <<<<"T", "r", "i", "g", "l", "y", "c", "e", "r", "i", "d", "e", "s">>, <<"5">>>>,
      <<<<"T", "r", "i", "g", "l", "y", "c", "e", "r", "i", "d", "e", "s">>, <<"5">>, <<"m", "g", "/", "d", "L">>>>,
      <<<<"T", "r", "i", "g", "l", "y", "c", "e", "r", "i", "d", "e", "s">>, <<"5">>, <<"m", "m", "o", "l", "/", "L">>>>,
      <<<<"T", "r", "i", "g", "l", "y", "c", "e", "r", "i", "d", "e", "s">>, <<"5", ".", "0", "1">>>>,
      <<<<"T", "r", "i", "g", "l", "y", "c", "e", "r", "i", "d", "e", "s">>, <<"5", ".", "0", "1">>, <<"m", "g", "/", "d", "L">>>>,
      <<<<"T", "r", "i", "g", "l", "y", "c", "e", "r", "i", "d", "e", "s">>, <<"5", ".", "0", "1">>, <<"m", "m", "o", "l", "/", "L">>>>,
      <<<<"T", "r", "i", "g", "l", "y", "c", "e", "r", "i", "d", "e", "s">>, <<"1", "5", "0">>>>,
      <<<<"T", "r", "i", "g", "l", "y", "c", "e", "r", "i", "d", "e", "s">>, <<"1", "5", "0">>, <<"m", "g", "/", "d", "L">>>>,
      <<<<"T", "r", "i", "g", "l", "y", "c", "e", "r", "i", "d", "e", "s">>, <<"1", "5", "0">>, <<"m", "m", "o", "l", "/", "L">>>>,
      <<<<"H", "D", "L">>, <<"1", ".", "3">>>>,
      <<<<"H", "D", "L">>, <<"1", ".", "3">>, <<"m", "g", "/", "d", "L">>>>,
      <<<<"H", "D", "L">>, <<"1", ".", "3">>, <<"m", "m", "o", "l", "/", "L">>>>,
      <<<<"H", "D", "L">>, <<"1", "0">>>>,
      <<<<"H", "D", "L">>, <<"1", "0">>, <<"m", "g", "/", "d", "L">>>>,
      <<<<"H", "D", "L">>, <<"1", "0">>, <<"m", "m", "o", "l", "/", "L">>>>,
      <<<<"H", "D", "L">>, <<"1", "0", ".", "0", "1">>>>,
      <<<<"H", "D", "L">>, <<"1", "0", ".", "0", "1">>, <<"m", "g", "/", "d", "L">>>>,
      <<<<"H", "D", "L">>, <<"1", "0", ".", "0", "1">>, <<"m", "m", "o", "l", "/", "L">>>>,
      <<<<"H", "D", "L">>, <<"4", "5">>>>,
      <<<<"H", "D", "L">>, <<"4", "5">>, <<"m", "g", "/", "d", "L">>>>,
      <<<<"H", "D", "L">>, <<"4", "5">>, <<"m", "m", "o", "l", "/", "L">>>>,
      <<<<"C", "h", "o", "l", " ", "t", "o", "t", "a", "l">>, <<"5", ".", "2">>>>,
      <<<<"C", "h", "o", "l", " ", "t", "o", "t", "a", "l">>, <<"5", ".", "2">>, <<"m", "g", "/", "d", "L">>>>,
      <<<<"C", "h", "o", "l", " ", "t", "o", "t", "a", "l">>, <<"5", ".", "2">>, <<"m", "m", "o", "l", "/", "L">>>>,
      <<<<"C", "h", "o", "l", " ", "t", "o", "t", "a", "l">>, <<"1", "0">>>>,
      <<<<"C", "h", "o", "l", " ", "t", "o", "t", "a", "l">>, <<"1", "0">>, <<"m", "g", "/", "d", "L">>>>,
      <<<<"C", "h", "o", "l", " ", "t", "o", "t", "a", "l">>, <<"1", "0">>, <<"m", "m", "o", "l", "/", "L">>>>,
      <<<<"C", "h", "o", "l", " ", "t", "o", "t", "a", "l">>, <<"2", "0", "0">>>>,
      <<<<"C", "h", "o", "l", " ", "t", "o", "t", "a", "l">>, <<"2", "0", "0">>, <<"m", "g", "/", "d", "L">>>>,
      <<<<"C", "h", "o", "l", " ", "t", "o", "t", "a", "l">>, <<"2", "0", "0">>, <<"m", "m", "o", "l", "/", "L">>>>,
      <<<<"G", "l", "u", "c", "o", "s", "e", " ", "(", "m", "m", "o", "l", "/", "L", ")">>, <<"5", ".", "2">>>>,
      <<<<"F", "a", "s", "t", "i", "n", "g", " ", "G", "l", "u", "c", "o", "s", "e">>, <<"5", ".", "2">>, <<"M", "M", "O", "L", "/", "L">>>> }

\* one row for each of the other rules
PlainRows ==
    { <<<<"H", "b", "A", "1", "c">>, <<"4", ".", "2">>>>,
      <<<<"L", "D", "L">>, <<"4", ".", "2">>>>,
      <<<<"T", "G">>, <<"4", ".", "2">>>>,
      <<<<"A", "C", "R">>, <<"4", ".", "2">>>>,
      <<<<"A", "l", "b", "u", "m", "i", "n", "/", "C", "r", "e", "a", "t", "i", "n", "i", "n", "e", " ", "R", "a", "t", "i", "o">>, <<"4", ".", "2">>>>,
      <<<<"A", "l", "b", "u", "m", "i", "n">>, <<"4", ".", "2">>>>,
      <<<<"C", "R", "P">>, <<"4", ".", "2">>>>,
      <<<<"C", "-", "r", "e", "a", "c", "t", "i", "v", "e", " ", "p", "r", "o", "t", "e", "i", "n">>, <<"4", ".", "2">>>>,
      <<<<"W", "B", "C">>, <<"4", ".", "2">>>>,
      <<<<"R", "D", "W">>, <<"4", ".", "2">>>>,
      <<<<"M", "C", "V">>, <<"4", ".", "2">>>>,
      <<<<"L", "y", "m", "p", "h", "o", "c", "y", "t", "e", "s">>, <<"4", ".", "2">>>>,
      <<<<"A", "L", "P">>, <<"4", ".", "2">>>>,
      <<<<"S", "B", "P">>, <<"4", ".", "2">>>>,
      <<<<"D", "B", "P">>, <<"4", ".", "2">>>>,
      <<<<"C", "h", "o", "l", "e", "s", "t", "e", "r", "o", "l", ",", " ", "T", "o", "t", "a", "l">>, <<"4", ".", "2">>>> }

\* labels matching several rules or none, values that are not numbers, short and blank rows
OddRows ==
    { <<<<"H", "D", "L", "/", "T", "r", "i", "g", "l", "y", "c", "e", "r", "i", "d", "e", " ", "r", "a", "t", "i", "o">>, <<"1", ".", "5">>>>,
      <<<<"L", "D", "L", " ", "+", " ", "t", "r", "i", "g", "l", "y", "c", "e", "r", "i", "d", "e">>, <<"1", ".", "5">>>>,
      <<<<"W", "B", "C", " ", "l", "y", "m", "p", "h", "o", "c", "y", "t", "e">>, <<"1", ".", "5">>>>,
      <<<<"T", "o", "t", "a", "l", " ", "C", "h", "o", "l", "e", "s", "t", "e", "r", "o", "l">>, <<"2", "0", "0">>, <<"m", "g", "/", "d", "L">>>>,
      <<<<"N", "o", "t", "e", "s">>, <<"5">>>>,
      <<<<"T", "G", "L">>, <<"5">>>>,
      <<<<"G", "l", "u", "c", "o", "s", "e">>, <<"a", "b", "c">>>>,
      <<<<"G", "l", "u", "c", "o", "s", "e">>, <<"-">>>>,
      <<<<"G", "l", "u", "c", "o", "s", "e">>, <<".">>>>,
      <<<<"G", "l", "u", "c", "o", "s", "e">>, << >>>>,
      <<<<"G", "l", "u", "c", "o", "s", "e">>, <<"<", "5", " ", "(", "l", "o", "w", ")">>>>,
      <<<<"H", "D", "L">>, <<"n", "/", "a">>, <<"m", "g", "/", "d", "L">>>>,
      <<<<"H", "D", "L">>, << >>, <<"m", "g", "/", "d", "L">>>>,
      <<<<" ", "g", "l", "u", "c", "o", "s", "e", " ">>, <<" ", "5", ".", "2", " ">>>>,
      <<<<"H", "D", "L">>, << >>, <<"4", "5">>>>,
      <<<<"H", "D", "L">>>>,
      << >>,
      <<<<" ">>, << >>>> }

\* the rows a file holds beside the one drawn from LabRows
CommonRows ==
    { <<<<"G", "l", "u", "c", "o", "s", "e">>, <<"9", "5">>, <<"m", "g", "/", "d", "L">>>>,
      <<<<"H", "D", "L">>, <<"a", "b", "c">>>>,
      <<<<"T", "r", "i", "g", "l", "y", "c", "e", "r", "i", "d", "e", "s">>, <<"1", ".", "7">>>> }

LabRows == CreatinineRows \cup UnitRows \cup PlainRows \cup OddRows \cup CommonRows

\* a file holds at most MaxRows rows
MaxRows == 2

\* the sequences of at most n rows of CommonRows
RECURSIVE CommonFiles(_)
CommonFiles(n) ==
    IF n = 0 THEN {<< >>}
    ELSE CommonFiles(n - 1) \cup {<<r>> \o f : r \in CommonRows, f \in {g \in CommonFiles(n - 1) : Len(g) = n - 1}}

\* the files of at most n rows, at most one of them outside CommonRows
LabFiles(n) ==
    CommonFiles(n)
    \cup UNION { { SubSeq(f, 1, i) \o <<r>> \o SubSeq(f, i + 1, Len(f)) :
                    r \in LabRows, i \in 0..Len(f) } : f \in CommonFiles(n - 1) }

\* the phrases of a laboratory document: label, number, unit
PdfPhrases ==
    { <<<<"G", "l", "u", "c", "o", "s", "e">>, <<"0">>, <<"m", "g", "/", "d", "L">>>>,
      <<<<"G", "l", "u", "c", "o", "s", "e">>, <<"9", "5">>, <<"m", "g", "/", "d", "L">>>>,
      <<<<"G", "l", "u", "c", "o", "s", "e">>, <<"5", ".", "2">>, <<"m", "m", "o", "l", "/", "L">>>>,
      <<<<"H", "D", "L">>, <<"0">>, <<"m", "g", "/", "d", "L">>>>,
      <<<<"H", "D", "L">>, <<"1", ".", "3">>, <<"m", "m", "o", "l", "/", "L">>>>,
      <<<<"L", "D", "L">>, <<"0">>, <<"m", "g", "/", "d", "L">>>>,
      <<<<"L", "D", "L">>, <<"3", ".", "0">>, <<"m", "m", "o", "l", "/", "L">>>>,
      <<<<"T", "r", "i", "g", "l", "y", "c", "e", "r", "i", "d", "e", "s">>, <<"0", ".", "0">>, <<"m", "g", "/", "d", "L">>>>,
      <<<<"T", "r", "i", "g", "l", "y", "c", "e", "r", "i", "d", "e", "s">>, <<"1", ".", "7">>, <<"m", "m", "o", "l", "/", "L">>>>,
      <<<<"T", "o", "t", "a", "l", " ", "C", "h", "o", "l", "e", "s", "t", "e", "r", "o", "l">>, <<"2", "0", "0">>, <<"m", "g", "/", "d", "L">>>>,
      <<<<"C", "r", "e", "a", "t", "i", "n", "i", "n", "e">>, <<"8", "0">>, <<"u00B5", "m", "o", "l", "/", "L">>>>,
      <<<<"C", "r", "e", "a", "t", "i", "n", "i", "n", "e">>, <<"1", ".", "0">>, <<"m", "g", "/", "d", "L">>>>,
      <<<<"H", "b", "A", "1", "c">>, <<"5", ".", "4">>, <<"%">>>>,
      <<<<"W", "B", "C">>, <<"6", ".", "0">>, <<"x", "1", "0", "^", "3", "/", "u", "L">>>> }

\* the texts of at most MaxRows phrases, as their words in order
RECURSIVE PdfTexts(_)
PdfTexts(n) ==
    IF n = 0 THEN {<< >>}
    ELSE PdfTexts(n - 1) \cup {t \o p : t \in PdfTexts(n - 1), p \in PdfPhrases}

\* riskColor arguments: percentages around the band edges, and the values
\* that are not numbers
RiskColorArgs ==
    {Num(p) : p \in {-1000, 0, 500, 9990, 9999, 10000, 10001, 19990, 19999, 20000,
                     20001, 95000, 100000}} \cup NotANumber

\* KDIGO arguments (hundredths): each side of every threshold, and the
\* values that are not numbers
KdigoEgfr ==
    {Num(e) : e \in {0, 1499, 1500, 2999, 3000, 4499, 4500, 5999, 6000, 8999, 9000, 12000}}
    \cup NotANumber
KdigoAcr == {Num(a) : a \in {0, 2999, 3000, 29999, 30000, 50000}} \cup NotANumber

\* eGFR_CKD_EPI_2021 arguments: creatinine (mg/dL, ten-thousandths) at k and
\* at k/2 for either sex, and the values that stand for a missing argument
EgfrSexes == {"Male", "m", "Female", ""}
EgfrAges == {Null, Undefined, NaN, Num(0), Num(30), Num(50)}
EgfrCreat == {Null, Undefined, Num(3500), Num(4500), Num(7000), Num(8000), Num(9000)}

\* FINDRISC arguments: a value in each class of age, bmi (hundredths) and
\* waist, and every family history
FindriscAges == {Undefined, Num(40), Num(50), Num(60), Num(70)}
FindriscBmi == {Num(2400), Num(2700), Num(3200)}
FindriscWaist == {Num(90), Num(98), Num(105)}
FindriscFh == {"first", "second", "none"}

\* CAIDE arguments: each side of every cut-off, and the missing values
CaideAges == {Undefined, Num(40), Num(47), Num(53), Num(54), Num(70)}
CaideEducation == {Null, Num(8), Num(10), Num(12)}
CaideSbp == {Null, Num(130), Num(140)}
CaideBmi == {Null, Num(2500), Num(3000)}
CaideTc == {Null, Num(600), Num(650)}

\* the converter of the other direction of each pair
UnitsPairs ==
    { <<"mgdl_to_mmol_glucose", "mmol_to_mgdl_glucose">>, <<"mmol_to_mgdl_glucose", "mgdl_to_mmol_glucose">>,
      <<"mgdl_to_mmol_trig", "mmol_to_mgdl_trig">>, <<"mmol_to_mgdl_trig", "mgdl_to_mmol_trig">>,
      <<"mgdl_to_mmol_chol", "mmol_to_mgdl_chol">>, <<"mmol_to_mgdl_chol", "mgdl_to_mmol_chol">>,
      <<"umol_to_mgdl_creatinine", "mgdl_to_umol_creatinine">>,
      <<"mgdl_to_umol_creatinine", "umol_to_mgdl_creatinine">> }

\* the values converted there and back, <<fn, v>>
UnitsInputs ==
    {
      <<"mgdl_to_mmol_glucose", <<1054112, 0, 0>>>>,
      <<"mgdl_to_mmol_glucose", <<1054112, 671088, 1342177>>>>,
      <<"mgdl_to_mmol_glucose", <<1054114, 1509949, 922747>>>>,
      <<"mmol_to_mgdl_glucose", <<1049856, 0, 0>>>>,
      <<"mmol_to_mgdl_glucose", <<1050419, 419430, 838861>>>>,
      <<"mmol_to_mgdl_glucose", <<1050444, 1677721, 1258291>>>>,
      <<"mgdl_to_mmol_trig", <<1054896, 0, 0>>>>,
      <<"mgdl_to_mmol_trig", <<1055152, 0, 0>>>>,
      <<"mgdl_to_mmol_trig", <<1055192, 0, 0>>>>,
      <<"mmol_to_mgdl_trig", <<1048064, 0, 0>>>>,
      <<"mmol_to_mgdl_trig", <<1048074, 503316, 1006633>>>>,
      <<"mmol_to_mgdl_trig", <<1048094, 1509949, 922747>>>>,
      <<"mgdl_to_mmol_chol", <<1054896, 0, 0>>>>,
      <<"mgdl_to_mmol_chol", <<1054968, 0, 0>>>>,
      <<"mgdl_to_mmol_chol", <<1055008, 0, 0>>>>,
      <<"mmol_to_mgdl_chol", <<1049600, 0, 0>>>>,
      <<"mmol_to_mgdl_chol", <<1050291, 419430, 838861>>>>,
      <<"umol_to_mgdl_creatinine", <<1053792, 0, 0>>>>,
      <<"umol_to_mgdl_creatinine", <<1054160, 0, 0>>>>,
      <<"umol_to_mgdl_creatinine", <<1054240, 0, 0>>>>,
      <<"mgdl_to_umol_creatinine", <<1047142, 838860, 1677722>>>>,
      <<"mgdl_to_umol_creatinine", <<1047367, 1426063, 754975>>>>,
      <<"mgdl_to_umol_creatinine", <<1047388, 335544, 671089>>>>
    }

-----------------------------------------------------------------------------
(* The state machine *)

NoClient == [present |-> FALSE]
NoReport == [rendered |-> FALSE]
NoCall == [fn |-> "none"]
NoLab == [kind |-> "none"]
NoForm == [currentStep |-> 0]

Init ==
    /\ country = "Australia"
    /\ client = NoClient
    /\ screen = "landing"
    /\ report = NoReport
    /\ call = NoCall
    /\ ret = Undefined
    /\ lab = NoLab
    /\ alert = ""
    /\ clients = <<>>
    /\ form = NoForm

Idle == screen = "landing" /\ call.fn = "none"

\* setCountry(c), from the landing page
setCountry(c) ==
    /\ Idle
    /\ country' = c
    /\ UNCHANGED <<client, screen, report, call, ret, lab, alert, clients, form>>

\* openClient(c): the record becomes AppState.client, its country the
\* session's, and renderReport runs Report.render on it
openClient_RenderStoresInputs(c) ==
    /\ Idle
    /\ LET ctry == IF c.country # "" THEN c.country ELSE country
       IN  /\ country' = ctry
           /\ report' = render(c, ctry)
           /\ client' = [c EXCEPT !.age = GatherInputs(c, ctry).age]
    /\ screen' = "report"
    /\ call' = [fn |-> "openClient", c |-> c]
    /\ UNCHANGED <<ret, lab, alert, clients, form>>
\* Report.render only reads state.client (it sorts a copy of the atms), so
\* the record stays as openClient stored it; call keeps the argument
openClient(c) ==
    /\ Idle
    /\ LET ctry == IF c.country # "" THEN c.country ELSE country
       IN  /\ country' = ctry
           /\ report' = render(c, ctry)
    /\ client' = c
    /\ screen' = "report"
    /\ call' = [fn |-> "openClient", c |-> c]
    /\ UNCHANGED <<ret, lab, alert, clients, form>>

\* a direct call of window.familyHistoryAdj
CallFamilyHistoryAdj(basePct, fh) ==
    /\ Idle
    /\ call' = [fn |-> "familyHistoryAdj", basePct |-> basePct, fh |-> fh]
    /\ ret' = familyHistoryAdj(basePct, fh)
    /\ UNCHANGED <<country, client, screen, report, lab, alert, clients, form>>

\* a direct call of window.MetabolicSyndrome
CallMetabolicSyndrome(a) ==
    /\ Idle
    /\ call' = [fn |-> "MetabolicSyndrome", args |-> a]
    /\ ret' = MetabolicSyndrome(a.sex, a.waist_cm, a.triglycerides, a.trigUnit, a.hdl,
                                a.hdlUnit, a.sbp, a.dbp, a.glucose, a.gluUnit, a.hba1c_pct)
    /\ UNCHANGED <<country, client, screen, report, lab, alert, clients, form>>

\* a direct call of window.Framingham.points
CallFraminghamPoints(age, sex, tc_mgdl, hdl_mgdl, sbp, bp_treated, smoker, diabetes) ==
    /\ Idle
    /\ call' = [fn |-> "Framingham.points", age |-> age, sex |-> sex, tc_mgdl |-> tc_mgdl,
                hdl_mgdl |-> hdl_mgdl, sbp |-> sbp, bp_treated |-> bp_treated,
                smoker |-> smoker, diabetes |-> diabetes]
    /\ ret' = FraminghamPoints(age, sex, tc_mgdl, hdl_mgdl, sbp, bp_treated, smoker, diabetes)
    /\ UNCHANGED <<country, client, screen, report, lab, alert, clients, form>>

\* a direct call of window.PhenotypicAge
CallPhenotypicAge(a) ==
    /\ Idle
    /\ call' = [fn |-> "PhenotypicAge", args |-> a]
    /\ ret' = PhenotypicAge(a[1], a[2], a[3], a[4], a[5], a[6], a[7], a[8], a[9], a[10])
    /\ UNCHANGED <<country, client, screen, report, lab, alert, clients, form>>

\* a direct call of window.riskColor
CallRiskColor(pct) ==
    /\ Idle
    /\ call' = [fn |-> "riskColor", pct |-> pct]
    /\ ret' = riskColor(pct)
    /\ UNCHANGED <<country, client, screen, report, lab, alert, clients, form>>

\* a direct call of window.KDIGO
CallKDIGO(egfr, acr_mg_g) ==
    /\ Idle
    /\ call' = [fn |-> "KDIGO", egfr |-> egfr, acr_mg_g |-> acr_mg_g]
    /\ ret' = KDIGO(egfr, acr_mg_g)
    /\ UNCHANGED <<country, client, screen, report, lab, alert, clients, form>>

\* a direct call of window.eGFR_CKD_EPI_2021
CallEgfr(sex, age, creat_mgdl) ==
    /\ Idle
    /\ call' = [fn |-> "eGFR_CKD_EPI_2021", sex |-> sex, age |-> age, creat_mgdl |-> creat_mgdl]
    /\ ret' = eGFR_CKD_EPI_2021(sex, age, creat_mgdl)
    /\ UNCHANGED <<country, client, screen, report, lab, alert, clients, form>>

\* a direct call of window.FINDRISC; a is the argument object
CallFINDRISC(a) ==
    /\ Idle
    /\ call' = [fn |-> "FINDRISC", args |-> a]
    /\ ret' = FINDRISC(a.age, a.bmi, a.waist_cm, a.daily_activity, a.veg_daily, a.meds_htn,
                       a.high_glucose_history, a.family_history)
    /\ UNCHANGED <<country, client, screen, report, lab, alert, clients, form>>

\* a direct call of window.CAIDE; a is the argument object
CallCAIDE(a) ==
    /\ Idle
    /\ call' = [fn |-> "CAIDE", args |-> a]
    /\ ret' = CAIDE(a.age, a.sex, a.education_years, a.sbp, a.bmi, a.tc_mmol, a.physically_active)
    /\ UNCHANGED <<country, client, screen, report, lab, alert, clients, form>>

\* the operations are offered on the landing page, before any call
SetCountry == Idle /\ \E c \in {"Australia", "USA"} : setCountry(c)
OpenClient ==
    Idle /\ \E p \in Profiles, chs \in ChangeLists(1, MaxDiff) : openClient(Changed(p, chs))
FamilyHistoryAdjCall ==
    Idle /\ \E b \in BasePcts, fh \in FhArgs : CallFamilyHistoryAdj(b, fh)

MetabolicSyndromeCall ==
    Idle /\ \E sex \in Sexes, p \in MetSParts :
                CallMetabolicSyndrome(MetSArgs(sex, p[1], p[2], p[3], p[4], p[5]))
FraminghamPointsCall ==
    Idle /\ \E age \in FramAges, sex \in Sexes, tc \in FramTc, hdl \in FramHdl,
               sbp \in FramSbp, treated \in BOOLEAN, smoker \in BOOLEAN, dm \in BOOLEAN :
                CallFraminghamPoints(age, sex, tc, hdl, sbp, treated, smoker, dm)
PhenotypicAgeCall ==
    Idle /\ \E a \in PhenoArgs(PhenoPanel, 1, MaxDiff) : CallPhenotypicAge(a)

RiskColorCall == Idle /\ \E pct \in RiskColorArgs : CallRiskColor(pct)
KDIGOCall == Idle /\ \E e \in KdigoEgfr, a \in KdigoAcr : CallKDIGO(e, a)
EgfrCall == Idle /\ \E s \in EgfrSexes, a \in EgfrAges, c \in EgfrCreat : CallEgfr(s, a, c)
FINDRISCCall ==
    Idle /\ \E a \in [ age : FindriscAges, bmi : FindriscBmi, waist_cm : FindriscWaist,
                        daily_activity : BOOLEAN, veg_daily : BOOLEAN, meds_htn : BOOLEAN,
                        high_glucose_history : BOOLEAN, family_history : FindriscFh ] :
                CallFINDRISC(a)
CAIDECall ==
    Idle /\ \E a \in [ age : CaideAges, sex : Sexes, education_years : CaideEducation,
                        sbp : CaideSbp, bmi : CaideBmi, tc_mmol : CaideTc,
                        physically_active : BOOLEAN ] :
                CallCAIDE(a)
\* a direct call of window.CancerGeneral: ages on each side of every tier,
\* alcohol, BMI (hundredths) and activity on each side of their cut-offs
CancerGeneralCall ==
    Idle /\ \E a \in [ age : {Undefined, NaN, Num(49), Num(50), Num(59), Num(60), Num(69), Num(70)},
                        sex : {"Female"}, smoker : BOOLEAN,
                        alcohol_units : {Undefined, Null, Num(14), Num(15)},
                        bmi : {Null, Num(2999), Num(3000)},
                        activity_days : {Undefined, Num(4), Num(5)} ] :
                /\ call' = [fn |-> "CancerGeneral", args |-> a]
                /\ ret' = CancerGeneral(a.age, a.sex, a.smoker, a.alcohol_units, a.bmi,
                                        a.activity_days)
                /\ UNCHANGED <<country, client, screen, report, lab, alert, clients, form>>
\* direct calls of window.BMI, window.WHtR and the functions of
\* window.Derived, with missing, zero and ordinary arguments
DerivedCall ==
    Idle /\ UNCHANGED <<country, client, screen, report, lab, alert, clients, form>>
         /\ \/ \E h \in {Null, Undefined, Num(0), Num(170)}, w \in {Null, Undefined, Num(0), Num(70)} :
                  /\ call' = [fn |-> "BMI", h_cm |-> h, w_kg |-> w]
                  /\ ret' = BMI(h, w)
            \/ \E w \in {Null, Undefined, Num(0), Num(90)}, h \in {Null, Undefined, Num(0), Num(170)} :
                  /\ call' = [fn |-> "WHtR", waist_cm |-> w, h_cm |-> h]
                  /\ ret' = WHtR(w, h)
            \/ \E g \in {Null, Undefined, Num(0), Num(500), Num(9000)}, i \in {Null, Undefined, Num(0), Num(1000)}, u \in {"mg/dL", "mmol/L"} :
                  /\ call' = [fn |-> "HOMA_IR", glucose |-> g, insulin |-> i, unit |-> u]
                  /\ ret' = HOMA_IR(g, i, u)
            \/ \E t \in {Null, Undefined, Num(0), Num(170), Num(15000)}, g \in {Null, Undefined, Num(0), Num(500), Num(9000)}, tu \in {"mg/dL", "mmol/L"}, gu \in {"mg/dL", "mmol/L"} :
                  /\ call' = [fn |-> "TyG", trig |-> t, glucose |-> g, trigUnit |-> tu, gluUnit |-> gu]
                  /\ ret' = TyG(t, g, tu, gu)
            \/ \E t \in {Null, Undefined, Num(0), Num(170), Num(15000)}, h \in {Null, Undefined, Num(0), Num(130), Num(5000)}, u \in {"mg/dL", "mmol/L"} :
                  /\ call' = [fn |-> "AIP", trig |-> t, hdl |-> h, unit |-> u]
                  /\ ret' = AIP(t, h, u)
            \/ \E s \in {"Male", "Female"}, w \in {Null, Num(0), Num(90)}, b \in {Null, Num(0), Num(2500)}, t \in {Undefined, Num(0), Num(170)}, h \in {Null, Num(0), Num(130)}, u \in {"mg/dL", "mmol/L"} :
                  /\ call' = [fn |-> "VAI", sex |-> s, waist_cm |-> w, bmi |-> b, trig |-> t, hdl |-> h, unit |-> u]
                  /\ ret' = VAI(s, w, b, t, h, u)
\* a value converted with one function of Units and back with the other
\* function of the pair
UnitsCall ==
    Idle /\ \E p \in UnitsPairs, i \in UnitsInputs :
                /\ i[1] = p[1]
                /\ call' = [fn |-> "Units", to |-> p[1], back |-> p[2], v |-> i[2]]
                /\ ret' = Units(p[2], Units(p[1], i[2]))
                /\ UNCHANGED <<country, client, screen, report, lab, alert, clients, form>>

Next ==
    \/ SetCountry
    \/ OpenClient
    \/ FamilyHistoryAdjCall
    \/ MetabolicSyndromeCall
    \/ FraminghamPointsCall
    \/ PhenotypicAgeCall
    \/ RiskColorCall
    \/ KDIGOCall
    \/ EgfrCall
    \/ FINDRISCCall
    \/ CAIDECall
    \/ CancerGeneralCall
    \/ DerivedCall
    \/ UnitsCall

Spec == Init /\ [][Next]_vars

-----------------------------------------------------------------------------
(* LabParser runs: a file is chosen, then its rows are read one by one *)

LabInit ==
    /\ country = "Australia"
    /\ client = NoClient
    /\ screen = "landing"
    /\ report = NoReport
    /\ call = NoCall
    /\ ret = Undefined
    /\ lab \in {[kind |-> k, rows |-> f, pos |-> 1, out |-> EmptyOut] :
                  k \in {"csv", "xlsx"}, f \in LabFiles(MaxRows)}
               \cup {[kind |-> "pdf", rows |-> t, pos |-> 0, out |-> EmptyOut] :
                       t \in PdfTexts(MaxRows)}
               \cup {[kind |-> "corrupt", rows |-> <<>>, pos |-> 0, out |-> EmptyOut]}
    /\ alert = ""
    /\ clients = <<>>
    /\ form = NoForm

\* parseCSV: the next line of the text
ParseCSVRow ==
    /\ lab.kind = "csv"
    /\ lab.pos <= Len(lab.rows)
    /\ lab' = [lab EXCEPT !.out = csvRow(lab.out, lab.rows[lab.pos]), !.pos = @ + 1]
    /\ UNCHANGED <<country, client, screen, report, call, ret, alert, clients, form>>

\* parseXLSX: the next row of the workbook
ParseXLSXRow ==
    /\ lab.kind = "xlsx"
    /\ lab.pos <= Len(lab.rows)
    /\ lab' = [lab EXCEPT !.out = xlsxRow(lab.out, lab.rows[lab.pos]), !.pos = @ + 1]
    /\ UNCHANGED <<country, client, screen, report, call, ret, alert, clients, form>>

\* parsePDFText: the text of the pages is searched pattern by pattern
ParsePDF ==
    /\ lab.kind = "pdf"
    /\ lab.pos = 0
    /\ lab' = [lab EXCEPT !.out = parsePDFText(lab.rows), !.pos = 1]
    /\ UNCHANGED <<country, client, screen, report, call, ret, alert, clients, form>>

\* renderIntake: TRUE when the page is built; the template reads
\* c.demographics.age, c.biometrics.height_cm, c.lifestyle.smoker, ..., and
\* throws a TypeError for a record without these sections (in the flat
\* record: without the demographics fields)
renderIntake(c) == "age" \in DOMAIN c

\* startIntake({prefill}): the copy of the prefill, its country ensured,
\* becomes AppState.client, and then renderIntake runs; when it throws the
\* page is left as it was and the caller's catch, if it has one, raises
\* `caught`
startIntake(prefill, caught) ==
    LET c == [prefill EXCEPT !.country = IF @ # "" THEN @ ELSE country]
    IN  /\ client' = c
        /\ IF renderIntake(c) THEN screen' = "intake" /\ alert' = alert
           ELSE screen' = screen /\ alert' = IF caught # "" THEN caught ELSE alert

CouldNotParse == "Could not parse file. Try CSV/XLSX or a text-based PDF."

\* the rest of reader.onload in handleLabUpload, once the parser has
\* returned: startIntake with {labs, label, country, provider} inside the
\* try; a file XLSX.read or pdfjs cannot read makes the parser throw
HandleLabUpload ==
    /\ screen = "landing" /\ alert = ""
    /\ \/ /\ \/ (lab.kind \in {"csv", "xlsx"} /\ lab.pos > Len(lab.rows))
             \/ (lab.kind = "pdf" /\ lab.pos = 1)
          /\ startIntake([labs |-> lab.out, label |-> "Uploaded Labs", country |-> country],
                         CouldNotParse)
       \/ /\ lab.kind = "corrupt"
          /\ alert' = CouldNotParse
          /\ UNCHANGED <<client, screen>>
    /\ UNCHANGED <<country, report, call, ret, lab, clients, form>>

\* the "Start intake" button: startIntake({}) with the default record; a
\* click is handled between the runs of the parser, not between its rows
StartManual ==
    /\ screen = "landing"
    /\ lab.kind \in {"csv", "xlsx"} => lab.pos > Len(lab.rows)
    /\ startIntake([DefaultClient EXCEPT !.country = country], "")
    /\ UNCHANGED <<country, report, call, ret, lab, clients, form>>

LabNext ==
    \/ ParseCSVRow
    \/ ParseXLSXRow
    \/ ParsePDF
    \/ HandleLabUpload
    \/ StartManual

LabSpec == LabInit /\ [][LabNext]_vars

-----------------------------------------------------------------------------
(* Saved clients: scenario -> intake -> report -> Save, and the history table *)

MaxSaved == 3
MaxIdPieces == 2
Today == "today"

\* the scenario of the fixtures, and the ids typed into the intake form; an
\* id is the sequence of the pieces it is concatenated from
Fixtures == { [id |-> <<"A">>, date |-> ""] @@ HighRiskClient }
IdInputs == { <<"A">>, <<"B">> }

HistInit ==
    /\ country = "Australia"
    /\ client = NoClient
    /\ screen = "landing"
    /\ report = NoReport
    /\ call = NoCall
    /\ ret = Undefined
    /\ lab = NoLab
    /\ alert = ""
    /\ clients = <<>>
    /\ form = NoForm

\* the "Load" button of the scenarios: startIntake({prefill: fx})
LoadScenario ==
    /\ Idle
    /\ \E fx \in Fixtures : startIntake(fx, "")
    /\ UNCHANGED <<country, report, call, ret, lab, clients, form>>

\* the "review" button of the intake page: the fields are collected into the
\* record (a lab field is parseFloat(value)||null, a unit the selected
\* option, mg/dL when the record has none), then renderReport
ReviewIntake ==
    /\ screen = "intake"
    /\ \E idv \in IdInputs :
          LET labNull(v) == IF Truthy(v) THEN v ELSE Null
              unit(u) == IF u = "" THEN "mg/dL" ELSE u
              c == [client EXCEPT !.id = idv,
                        !.tc = labNull(@), !.hdl = labNull(@), !.triglycerides = labNull(@),
                        !.glucose = labNull(@), !.hba1c_pct = labNull(@),
                        !.creatinine_umolL = labNull(@), !.acr_mg_g = labNull(@),
                        !.albumin_gL = labNull(@), !.crp_mgdl = labNull(@),
                        !.wbc_10e3_uL = labNull(@), !.rdw_pct = labNull(@),
                        !.mcv_fl = labNull(@), !.lymph_pct = labNull(@), !.alp_uL = labNull(@),
                        !.tc_unit = unit(@), !.hdl_unit = unit(@),
                        !.triglycerides_unit = unit(@), !.glucose_unit = unit(@)]
          IN  /\ client' = c
              /\ report' = render(c, country)
    /\ screen' = "report"
    /\ UNCHANGED <<country, call, ret, lab, alert, clients, form>>

\* the Save button of the report: the copy of AppState.client, dated today,
\* replaces the saved record with its id or is pushed
SaveClient ==
    /\ screen = "report"
    /\ LET c == [client EXCEPT !.date = Today]
           hit == {i \in 1..Len(clients) : clients[i].id = c.id}
       IN  IF hit # {} THEN clients' = [clients EXCEPT ![MinOf(hit)] = c]
           ELSE Len(clients) < MaxSaved /\ clients' = Append(clients, c)
    /\ UNCHANGED <<country, client, screen, report, call, ret, lab, alert, form>>

\* the Back button of the report
BackToLanding ==
    /\ screen = "report"
    /\ screen' = "landing"
    /\ report' = NoReport
    /\ call' = NoCall
    /\ UNCHANGED <<country, client, ret, lab, alert, clients, form>>

\* the Open button of a row of the history table
OpenSaved ==
    \E i \in 1..Len(clients) : openClient(clients[i])

\* the Duplicate button: c.id = (c.id||'CL-') + '-COPY', dated today, pushed
DuplicateSaved ==
    /\ Idle
    /\ Len(clients) < MaxSaved
    /\ \E i \in 1..Len(clients) :
          LET c == clients[i]
          IN  /\ Len(c.id) < MaxIdPieces
              /\ clients' = Append(clients,
                  [c EXCEPT !.id = (IF @ = <<>> THEN <<"CL-">> ELSE @) \o <<"-COPY">>,
                            !.date = Today])
    /\ UNCHANGED <<country, client, screen, report, call, ret, lab, alert, form>>

\* the Delete button: list.splice(i,1)
DeleteSaved ==
    /\ Idle
    /\ \E i \in 1..Len(clients) :
          clients' = [k \in 1..(Len(clients) - 1) |->
                         IF k < i THEN clients[k] ELSE clients[k + 1]]
    /\ UNCHANGED <<country, client, screen, report, call, ret, lab, alert, form>>

HistNext ==
    \/ LoadScenario
    \/ ReviewIntake
    \/ SaveClient
    \/ BackToLanding
    \/ OpenSaved
    \/ DuplicateSaved
    \/ DeleteSaved

HistSpec == HistInit /\ [][HistNext]_vars

-----------------------------------------------------------------------------
(* The 3-step intake form (intake-form/assets/app.js): numbers are whole,   *)
(* BMI in tenths and the waist-to-height ratio in hundredths                *)

TOTAL_STEPS == 3

\* clamp(n, lo, hi) of the form: Math.max(lo, Math.min(hi, isFinite(n) ? n : lo))
formClamp(n, lo, hi) ==
    LET x == IF n.k = "num" THEN n.v ELSE lo
    IN  IF x < lo THEN lo ELSE IF x > hi THEN hi ELSE x

\* coerce(v) for a typed text of digits or letters: "" stays "", a numeral
\* becomes its number, any other text stays text
coerce(v) ==
    IF v = << >> THEN Str(v)
    ELSE IF \A i \in 1..Len(v) : IsDigit(v[i]) THEN Num(DigitsValue(v))
    ELSE Str(v)

isNumber(n) == n.k = "num"
isOptNum(n, min, max) == isNumber(n) /\ n.v >= min /\ n.v <= max

\* the steps' fields that validation reads, and schema, their initial values
StepFields ==
    << {"age", "gender"},
       {"exercise_days_per_week", "sleep_hours", "stress_level", "diet_quality"},
       {"height_cm", "weight_kg", "waist_cm", "bp_sys", "bp_dia", "resting_hr"} >>
schema ==
    [ age |-> Null, gender |-> Str(<< >>),
      exercise_days_per_week |-> Null, sleep_hours |-> Null, stress_level |-> Null,
      diet_quality |-> Null,
      height_cm |-> Null, weight_kg |-> Null, waist_cm |-> Null, bp_sys |-> Null,
      bp_dia |-> Null, resting_hr |-> Null, bmi |-> Null, waist_height_ratio |-> Null ]

\* validateCurrentStep: errors.length === 0
validateCurrentStep(step, s) ==
    /\ step = 1 => /\ isNumber(s.age) /\ s.age.v >= 0 /\ s.age.v <= 120
                   /\ s.gender.k = "str" /\ s.gender.t # << >>
    /\ step = 2 => /\ isOptNum(s.exercise_days_per_week, 0, 14)
                   /\ isOptNum(s.sleep_hours, 0, 24)
                   /\ isOptNum(s.stress_level, 1, 10)
                   /\ isOptNum(s.diet_quality, 1, 10)
    /\ step = 3 => /\ isOptNum(s.height_cm, 50, 250)
                   /\ isOptNum(s.weight_kg, 20, 400)
                   /\ isOptNum(s.waist_cm, 30, 200)
                   /\ isOptNum(s.bp_sys, 60, 260)
                   /\ isOptNum(s.bp_dia, 30, 180)
                   /\ isOptNum(s.resting_hr, 30, 220)

\* recalcDerived: round1(calcBMI) and round2(calcWHR), null when not finite
recalcDerived(s) ==
    LET h == s.height_cm
        w == s.weight_kg
        wa == s.waist_cm
    IN  [s EXCEPT
           !.bmi = IF isNumber(h) /\ isNumber(w) /\ h.v > 0
                   THEN Num((2 * w.v * 100000 + h.v * h.v) \div (2 * h.v * h.v)) ELSE Null,
           !.waist_height_ratio = IF isNumber(wa) /\ isNumber(h) /\ h.v > 0
                   THEN Num((2 * wa.v * 100 + h.v) \div (2 * h.v)) ELSE Null]

\* the item "cdra_step" of sessionStorage as parseInt reads it, the state
\* found in localStorage, and the texts typed into the fields
StepItems == {NaN, Num(0), Num(2), Num(3), Num(7)}
SavedState ==
    [ age |-> Num(40), gender |-> Str(<<"m", "a", "l", "e">>),
      exercise_days_per_week |-> Num(3), sleep_hours |-> Num(8), stress_level |-> Num(5),
      diet_quality |-> Num(7),
      height_cm |-> Num(170), weight_kg |-> Num(70), waist_cm |-> Num(90), bp_sys |-> Num(120),
      bp_dia |-> Num(80), resting_hr |-> Num(60), bmi |-> Num(242), waist_height_ratio |-> Num(53) ]
Typed ==
    [ age |-> {<<"4", "0">>, <<"1", "3", "0">>}, gender |-> {<<"m", "a", "l", "e">>},
      exercise_days_per_week |-> {<<"3">>, <<"2", "0">>}, sleep_hours |-> {<<"8">>},
      stress_level |-> {<<"5">>}, diet_quality |-> {<<"7">>},
      height_cm |-> {<<"1", "7", "0">>, << >>}, weight_kg |-> {<<"7", "0">>},
      waist_cm |-> {<<"9", "0">>}, bp_sys |-> {<<"1", "2", "0">>},
      bp_dia |-> {<<"a", "b", "c">>}, resting_hr |-> {<<"6", "0">>} ]

\* currentStep = clamp(parseInt(item) || 1, 1, TOTAL_STEPS); state = loadState()
FormInit ==
    /\ country = "Australia"
    /\ client = NoClient
    /\ screen = "landing"
    /\ report = NoReport
    /\ call = NoCall
    /\ ret = Undefined
    /\ lab = NoLab
    /\ alert = ""
    /\ clients = <<>>
    /\ \E item \in StepItems, stored \in {Null, SavedState} :
          form = [ currentStep |-> formClamp(OrElse(item, Num(1)), 1, TOTAL_STEPS),
                   state |-> IF stored = Null THEN schema ELSE stored,
                   stored |-> stored, msg |-> "" ]

\* btnBack click
FormBack_Unguarded ==
    /\ form' = [form EXCEPT !.currentStep = @ - 1, !.msg = "Moved to previous step."]
    /\ UNCHANGED <<country, client, screen, report, call, ret, lab, alert, clients>>
FormBack ==
    /\ form.currentStep > 1
    /\ form' = [form EXCEPT !.currentStep = @ - 1, !.msg = "Moved to previous step."]
    /\ UNCHANGED <<country, client, screen, report, call, ret, lab, alert, clients>>

\* btnNext click
FormNext ==
    /\ form' = IF ~validateCurrentStep(form.currentStep, form.state)
               THEN [form EXCEPT !.msg = "danger"]
               ELSE IF form.currentStep < TOTAL_STEPS
               THEN [form EXCEPT !.currentStep = @ + 1, !.msg = "Moved to next step."]
               ELSE [form EXCEPT !.msg = "Steps 1-3 complete."]
    /\ UNCHANGED <<country, client, screen, report, call, ret, lab, alert, clients>>

\* btnSave click
FormSave ==
    /\ form' = [form EXCEPT !.stored = form.state, !.msg = "Progress saved locally."]
    /\ UNCHANGED <<country, client, screen, report, call, ret, lab, alert, clients>>

\* onChange of a field of the step shown: assignById, recalcDerived for
\* height, weight and waist, saveState
FormChange ==
    /\ \E id \in StepFields[form.currentStep] : \E v \in Typed[id] :
          LET s1 == [form.state EXCEPT ![id] = coerce(v)]
              s2 == IF id \in {"height_cm", "weight_kg", "waist_cm"} THEN recalcDerived(s1) ELSE s1
          IN  form' = [form EXCEPT !.state = s2, !.stored = s2]
    /\ UNCHANGED <<country, client, screen, report, call, ret, lab, alert, clients>>

FormStep ==
    \/ FormBack
    \/ FormNext
    \/ FormSave
    \/ FormChange

FormSpec == FormInit /\ [][FormStep]_vars

-----------------------------------------------------------------------------
(* Properties *)

\* the client-record fields each adjusted risk of the report is computed from
C1_Requires ==
    [ cvd |-> {"age", "sex", "sbp"},
      t2d |-> {"age", "height_cm", "weight_kg", "waist_cm"},
      neuro |-> {"age", "sex", "education_years", "sbp", "height_cm", "weight_kg"},
      ckd |-> {"age", "sex"},
      cancer |-> {"age", "height_cm", "weight_kg"} ]
C1_Absent(f) == IF f = "sex" THEN client.sex = "" ELSE IsNullish(client[f])

\* C1: when an input a risk model requires (age, sex, height, weight, waist,
\* blood pressure, education years) is absent from the client record, the
\* value the report computes for that model is null.
C1_AbsentInputGivesNull ==
    screen = "report" =>
        \A m \in DOMAIN C1_Requires :
            (\E f \in C1_Requires[m] : C1_Absent(f)) => IsNullish(report[m])

\* the numeric input of the i-th criterion is missing
C2_Missing(a, i) ==
    CASE i = 1 -> IsNullish(a.waist_cm)
      [] i = 2 -> IsNullish(a.triglycerides)
      [] i = 3 -> IsNullish(a.hdl)
      [] i = 4 -> IsNullish(a.sbp) /\ IsNullish(a.dbp)
      [] i = 5 -> IsNullish(a.glucose) /\ IsNullish(a.hba1c_pct)

\* C2: in MetabolicSyndrome a criterion whose numeric input is missing (null
\* or undefined) is reported as fail, for both sexes and both unit tags, and
\* all five criteria are still returned.
C2_MissingInputFails ==
    call.fn = "MetabolicSyndrome" =>
        /\ Len(ret.criteria) = 5
        /\ \A i \in 1..5 : C2_Missing(call.args, i) => ~ret.criteria[i].pass

C3_InRange(p, hi) == IsNullish(p) \/ (p.k = "num" /\ 0 <= p.v /\ p.v <= hi)

\* C3: every non-null percentage a risk model returns lies in [0, 100], and
\* every percentage familyHistoryAdj returns for a non-null base lies in
\* [0, 95], whatever family-history argument is passed.
C3_PercentagesBounded ==
    /\ call.fn = "familyHistoryAdj" /\ ~IsNullish(call.basePct) =>
           ret.k = "num" /\ 0 <= ret.v /\ ret.v <= 95000
    /\ call.fn = "Framingham.points" => C3_InRange(ret.risk_pct, 100000)
    /\ call.fn = "PhenotypicAge" => C3_InRange(ret.mortality_10yr_pct, 100000)
    /\ screen = "report" =>
           /\ \A m \in {"findr_base", "copd_base", "caide", "kdigo_base", "cancer_base"} :
                  C3_InRange(report[m], 100000)
           /\ C3_InRange(report.pheno.mortality_10yr_pct, 100000)
           /\ \A m \in {"cvd", "t2d", "copd", "neuro", "ckd", "cancer"} :
                  C3_InRange(report[m], 95000)

\* C4: familyHistoryAdj(base, fh) with a non-null base and counts first,
\* second, third returns min(95, base * (1 + 0.10 first + 0.05 second +
\* 0.02 third)); x below is 100 times that product, in thousandths.
C4_FormulaAndClamp ==
    ( /\ call.fn = "familyHistoryAdj"
      /\ call.basePct.k = "num"
      /\ call.fh.k = "obj"
      /\ call.fh.first.k = "num" /\ call.fh.second.k = "num" /\ call.fh.third.k = "num" )
    => LET x == call.basePct.v * (100 + 10 * call.fh.first.v + 5 * call.fh.second.v
                                      + 2 * call.fh.third.v)
       IN  /\ ret.k = "num"
           /\ IF x >= 95000 * 100 THEN ret.v = 95000
              ELSE ret.v * 100 <= x /\ x < (ret.v + 1) * 100

\* base = 10%, two first-degree relatives: 12%
C4_TenPercentTwoFirst ==
    /\ call.fn = "familyHistoryAdj"
    /\ call.basePct = Num(10000)
    /\ call.fh = Fh(Num(2), Num(0), Num(0))
    /\ ret = Num(12000)

\* C5: familyHistoryAdj returns null whenever the base percentage is null,
\* for every family-history argument (an undefined base comes back
\* undefined, never a number); in the report, CVD without cholesterol or HDL
\* and CKD without eGFR or ACR are null.
C5_NullBaseStaysNull ==
    /\ call.fn = "familyHistoryAdj" /\ IsNullish(call.basePct) => ret = call.basePct
    /\ screen = "report" =>
           /\ IsNullish(client.tc) \/ IsNullish(client.hdl) => report.cvd = Null
           /\ IsNullish(report.egfr) \/ IsNullish(client.acr_mg_g) => report.ckd = Null

\* a null base with relatives counted
C5_NullBaseWithRelatives ==
    /\ call.fn = "familyHistoryAdj"
    /\ call.basePct = Null
    /\ call.fh = Fh(Num(2), Num(1), Num(0))
    /\ ret = Null

C6_Table == IF StartsWithM(call.sex) THEN mapM ELSE mapF
C6_FloorKey(keys, pts) ==
    IF \E k \in keys : k <= pts THEN MaxOf({k \in keys : k <= pts}) ELSE MinOf(keys)

\* C6: Framingham maps total points to a percentage by floor lookup in the
\* sex-specific table: the entry of the largest key <= total points, the
\* lowest entry below the smallest key, the highest above the largest key.
C6_FloorLookup ==
    call.fn = "Framingham.points" =>
        /\ ret.chosen = C6_FloorKey(DOMAIN C6_Table, ret.points)
        /\ ret.points > 21 => ret.chosen = 21
        /\ ret.risk_pct = Num(C6_Table[ret.chosen] * 1000)

\* a total strictly between the keys -100 and -1 resolves to -100
C6_BetweenKeys ==
    /\ call.fn = "Framingham.points"
    /\ -100 < ret.points /\ ret.points < -1
    /\ ret.chosen = -100

C8_Shape(m) ==
    /\ Len(m.criteria) = 5
    /\ m.count = Cardinality({i \in 1..5 : m.criteria[i].pass})
    /\ m.count \in 0..5
    /\ m.diagnosis <=> m.count >= 3

\* C8: MetabolicSyndrome always returns exactly five criteria, count is the
\* number of criteria that pass, and diagnosis is true iff count >= 3.
C8_CountAndDiagnosis ==
    /\ call.fn = "MetabolicSyndrome" => C8_Shape(ret)
    /\ screen = "report" => C8_Shape(report.metasyn)

\* exactly three criteria pass: diagnosed
C8_ThreePasses ==
    /\ call.fn = "MetabolicSyndrome"
    /\ ret.count = 3
    /\ ret.diagnosis

\* C9: with sex and the numeric inputs given, each criterion passes exactly
\* at its threshold: waist >= 102 (male) / >= 88 (female); triglycerides
\* >= 150 mg/dL-equivalent; HDL < 40 (male) / < 50 (female)
\* mg/dL-equivalent; sbp >= 130 or dbp >= 85; glucose >= 100
\* mg/dL-equivalent or HbA1c >= 5.7.  Values are hundredths; a mmol/L value
\* v is v * 88.57, v * 38.67 or v * 18 mg/dL.
C9_Thresholds ==
    LET a == call.args
        male == a.sex = "Male"
    IN  ( /\ call.fn = "MetabolicSyndrome"
          /\ a.sex \in {"Male", "Female"}
          /\ \A x \in {a.waist_cm, a.triglycerides, a.hdl, a.sbp, a.dbp, a.glucose} :
                 x.k = "num" )
        => /\ ret.criteria[1].pass <=> a.waist_cm.v >= (IF male THEN 102 ELSE 88)
           /\ ret.criteria[2].pass <=>
                  IF a.trigUnit = "mmol/L" THEN a.triglycerides.v * 8857 >= 15000 * 100
                  ELSE a.triglycerides.v >= 15000
           /\ ret.criteria[3].pass <=>
                  IF a.hdlUnit = "mmol/L"
                  THEN a.hdl.v * 3867 < (IF male THEN 4000 ELSE 5000) * 100
                  ELSE a.hdl.v < (IF male THEN 4000 ELSE 5000)
           /\ ret.criteria[4].pass <=> a.sbp.v >= 130 \/ a.dbp.v >= 85
           /\ ret.criteria[5].pass <=>
                  \/ IF a.gluUnit = "mmol/L" THEN a.glucose.v * 18 >= 10000
                     ELSE a.glucose.v >= 10000
                  \/ a.hba1c_pct.k = "num" /\ a.hba1c_pct.v >= 570

\* male, waist 105, TG 160 mg/dL, HDL 35 mg/dL, 135/80, glucose 110 mg/dL
C9_Example ==
    /\ call.fn = "MetabolicSyndrome"
    /\ call.args = MetSArgs("Male", Num(105), <<Num(16000), "mg/dL">>,
                            <<Num(3500), "mg/dL">>, <<Num(135), Num(80)>>,
                            <<<<Num(11000), "mg/dL">>, Null>>)
    /\ \A i \in 1..5 : ret.criteria[i].pass
    /\ ret.count = 5
    /\ ret.diagnosis

\* C10: PhenotypicAge returns pheno_age = null and mortality_10yr_pct = null
\* whenever one of the nine biomarkers or the age is missing or not finite
\* (null, undefined, NaN, +-Infinity), and numbers only when all ten are
\* present and finite.
C10_NullUnlessAllFinite ==
    call.fn = "PhenotypicAge" =>
        IF \E i \in 1..10 : IsNullish(call.args[i]) \/ ~IsFinite(call.args[i])
        THEN ret.pheno_age = Null /\ ret.mortality_10yr_pct = Null
        ELSE ret.pheno_age.k = "num" /\ ret.mortality_10yr_pct.k = "num"

C12_Reading == lab.kind \in {"csv", "xlsx"} /\ lab.pos <= Len(lab.rows)
C12_Cols ==
    LET row == lab.rows[lab.pos]
    IN  IF lab.kind = "csv"
        THEN SelectSeq([i \in 1..Len(row) |-> Trim(row[i])], LAMBDA c : c # << >>)
        ELSE row
C12_Rule ==
    IF C12_Cols = << >> THEN 0
    ELSE LET hits == {i \in 1..17 : KeymapTest(i, norm(C12_Cols[1]))}
         IN  IF hits = {} THEN 0 ELSE MinOf(hits)
C12_Value == IF Len(C12_Cols) >= 2 THEN num(Str(C12_Cols[2])) ELSE Null
C12_Mentions(sub) == \E i \in 1..Len(C12_Cols) : Includes(ToLowerCase(C12_Cols[i]), sub)

\* C12: creatinine in a CSV row is normalized to micromol/L: with a unit hint
\* mentioning umol (in any spelling) the value is kept; with a hint
\* mentioning mg/dL it is multiplied by 88.4; with no hint a value > 15 is
\* kept and a value <= 15 is multiplied by 88.4.
C12_CreatinineUnits ==
    [][ (C12_Reading /\ lab.kind = "csv" /\ C12_Rule = 7 /\ C12_Value # Null) =>
            LET n == C12_Value.v
                micro == \/ C12_Mentions(<<"u", "m", "o", "l">>)
                         \/ C12_Mentions(<<"u00B5", "m", "o", "l">>)
                         \/ C12_Mentions(<<"u03BC", "m", "o", "l">>)
                         \/ C12_Mentions(<<"m", "i", "c", "r", "o", "m", "o", "l">>)
                mgdl == C12_Mentions(<<"m", "g", "/", "d", "l">>)
                x == lab'.out.creatinine_umolL
            IN  /\ x.k = "num"
                /\ micro => x.v = n
                /\ ~micro /\ mgdl => x.v * 10 <= n * 884 /\ n * 884 < (x.v + 1) * 10
                /\ ~micro /\ ~mgdl /\ n > 1500 => x.v = n
                /\ ~micro /\ ~mgdl /\ n <= 1500 =>
                       x.v * 10 <= n * 884 /\ n * 884 < (x.v + 1) * 10 ]_vars

\* "Creatinine,1.0" alone in a CSV file: 88.4
C12_OnePointZeroNoHint ==
    /\ lab.kind = "csv"
    /\ lab.rows = << <<<<"C", "r", "e", "a", "t", "i", "n", "i", "n", "e">>, <<"1", ".", "0">>>> >>
    /\ lab.pos = 2
    /\ lab.out.creatinine_umolL = Num(8840)

\* the keys of the output that a step changes
C13_Changed == {f \in DOMAIN EmptyOut : lab'.out[f] # lab.out[f]}

\* C13: in tabular parsing only the first rule (in list order) that matches
\* the normalized label is applied: a row sets at most one analyte key, that
\* of the first matching rule (with its unit tag), and nothing when no rule
\* matches.
C13_FirstRuleWins ==
    [][ C12_Reading =>
            IF C12_Rule = 0 THEN C13_Changed = {}
            ELSE LET key == KeymapKey[C12_Rule]
                 IN  C13_Changed \subseteq
                         {key} \cup (IF key \in DOMAIN UnitField THEN {UnitField[key]} ELSE {}) ]_vars

\* a label matching both the HDL rule and the later triglycerides rule
C13_HdlBeforeTriglycerides ==
    /\ lab.kind = "csv"
    /\ lab.pos = 2 /\ Len(lab.rows) = 1 /\ Len(lab.rows[1]) = 2
    /\ {i \in 1..17 : KeymapTest(i, norm(lab.rows[1][1]))} = {4, 6}
    /\ lab.out.hdl = Num(150)
    /\ lab.out.triglycerides = Undefined

\* C15: for a tabular row for glucose, triglycerides, HDL or total
\* cholesterol that carries no unit token, the unit tag written is guessed
\* from magnitude (glucose <= 15 -> mmol/L else mg/dL; triglycerides <= 5;
\* cholesterol <= 10) and the value is stored untransformed.
C15_UnitGuessed ==
    [][ ( /\ C12_Reading
          /\ C12_Rule \in {2, 3, 4, 6}
          /\ C12_Value # Null
          /\ ~C12_Mentions(<<"m", "m", "o", "l">>)
          /\ ~C12_Mentions(<<"m", "g", "/", "d", "l">>) ) =>
            LET key == KeymapKey[C12_Rule]
                limit == CASE key = "glucose" -> 1500
                           [] key = "triglycerides" -> 500
                           [] OTHER -> 1000
            IN  /\ lab'.out[key] = C12_Value
                /\ lab'.out[UnitField[key]] =
                       (IF C12_Value.v <= limit THEN "mmol/L" ELSE "mg/dL") ]_vars

\* the value cell of the row read next holds no digit
C16_NoDigits == Len(C12_Cols) < 2 \/ \A i \in 1..Len(C12_Cols[2]) : ~IsDigit(C12_Cols[2][i])

C14_Labels ==
    [ glucose |-> {<<"g", "l", "u", "c", "o", "s", "e">>}, tc |-> TcLabels, hdl |-> {<<"h", "d", "l">>}, ldl |-> {<<"l", "d", "l">>},
      triglycerides |-> {<<"t", "r", "i", "g", "l", "y", "c", "e", "r", "i", "d", "e", "s">>} ]

\* C14: in document parsing, once glucose, total cholesterol, HDL, LDL or
\* triglycerides has been set from the mg/dL pattern (for any matched value,
\* 0 included), the mmol/L attempt overwrites neither the value nor the
\* unit tag.
C14_MgdlNeverOverwritten ==
    (lab.kind = "pdf" /\ lab.pos = 1) =>
        \A key \in DOMAIN C14_Labels :
            LET v == find(LowerWords(lab.rows), C14_Labels[key], MgdL)
            IN  v # Null =>
                    /\ lab.out[key] = v
                    /\ key \in DOMAIN UnitField => lab.out[UnitField[key]] = "mg/dL"

\* the G and A categories and the grid as the specification states them
C17_G(e) ==
    IF e >= 9000 THEN "G1" ELSE IF e >= 6000 THEN "G2" ELSE IF e >= 4500 THEN "G3a"
    ELSE IF e >= 3000 THEN "G3b" ELSE IF e >= 1500 THEN "G4" ELSE "G5"
C17_A(a) == IF a < 3000 THEN "A1" ELSE IF a < 30000 THEN "A2" ELSE "A3"
C17_Grid ==
    [ G1 |-> <<5, 10, 20>>, G2 |-> <<7, 15, 25>>, G3a |-> <<10, 20, 35>>,
      G3b |-> <<15, 30, 45>>, G4 |-> <<25, 45, 60>>, G5 |-> <<60, 75, 90>> ]

\* C17: KDIGO assigns G1 for eGFR >= 90, G2 >= 60, G3a >= 45, G3b >= 30,
\* G4 >= 15, G5 < 15 and A1 for ACR < 30, A2 < 300, A3 >= 300, returns the
\* percentage of that cell of the 6x3 grid, returns a null percentage when
\* eGFR or ACR is missing, and every cell with eGFR >= 60 and ACR < 30 is
\* below 10% and bands Low.
C17_KdigoGrid ==
    call.fn = "KDIGO" =>
        LET e == call.egfr
            a == call.acr_mg_g
        IN  /\ (IsNullish(e) \/ IsNullish(a)) =>
                   ret.risk_pct = Null /\ ret.band.label = "N/A"
            /\ (e.k = "num" /\ a.k = "num") =>
                   LET g == C17_G(e.v)
                       col == C17_A(a.v)
                       pct == C17_Grid[g][IF col = "A1" THEN 1 ELSE IF col = "A2" THEN 2 ELSE 3]
                   IN  /\ ret.category = <<g, col>>
                       /\ ret.risk_pct = Num(pct * 1000)
                       /\ (e.v >= 6000 /\ a.v < 3000) =>
                              ret.risk_pct.v < 10000 /\ ret.band.label = "Low"

\* eGFR exactly 60 with ACR just under 30: G2-A1, 7%, Low
C17_SixtyIsG2 ==
    /\ call.fn = "KDIGO"
    /\ call.egfr = Num(6000) /\ call.acr_mg_g = Num(2999)
    /\ ret.category = <<"G2", "A1">>
    /\ ret.risk_pct = Num(7000)
    /\ ret.band.label = "Low"

\* 142 * min(c/k, 1)^a * max(c/k, 1)^-1.2 * 0.9938^age (* 1.012 for a
\* woman), floored to hundredths, with the constants the specification
\* names (male k = 0.9, a = -0.302; female k = 0.7, a = -0.241), at c = k
\* and at c = k/2: <<male, age, c, eGFR>>
C18_Expected ==
    { <<TRUE, 30, 9000, 11783>>, <<TRUE, 30, 4500, 14526>>,
      <<TRUE, 50, 9000, 10404>>, <<TRUE, 50, 4500, 12827>>,
      <<FALSE, 30, 7000, 11924>>, <<FALSE, 30, 3500, 14092>>,
      <<FALSE, 50, 7000, 10529>>, <<FALSE, 50, 3500, 12444>> }

C19_FourBands ==
    call.fn = "FINDRISC" =>
        LET a == call.args
            s == ret.score
            without == FINDRISC(a.age, a.bmi, a.waist_cm, a.daily_activity, a.veg_daily,
                                a.meds_htn, a.high_glucose_history, "none").score
        IN  /\ s <= 11 => ret.risk_pct = Num(1000)
            /\ s \in 12..14 => ret.risk_pct = Num(4000)
            /\ s \in 15..20 => ret.risk_pct = Num(17000)
            /\ s > 20 => ret.risk_pct = Num(33000)
            /\ s - without = (CASE a.family_history = "first" -> 5
                                [] a.family_history = "second" -> 3
                                [] OTHER -> 0)

\* a second-degree family history lifting a score of 9 to 12, the lowest
\* score of the 4% band
C19_SecondDegreeToTwelve ==
    /\ call.fn = "FINDRISC"
    /\ call.args.family_history = "second"
    /\ ret.score = 12
    /\ ret.risk_pct = Num(4000)

\* the nine tiers as the specification lists them, in thousandths of a percent
C20_Tier(s) ==
    CASE s <= 5 -> 1000 [] s = 6 -> 1900 [] s = 7 -> 4200 [] s = 8 -> 7400
      [] s = 9 -> 14000 [] s = 10 -> 19600 [] s = 11 -> 31700 [] s = 12 -> 52600
      [] OTHER -> 100000

\* C20: CAIDE maps its score through nine tiers (<= 5 -> 1.0, 6 -> 1.9,
\* 7 -> 4.2, 8 -> 7.4, 9 -> 14.0, 10 -> 19.6, 11 -> 31.7, 12 -> 52.6,
\* > 12 -> 100.0); the percentage is nondecreasing in the score and the
\* score lies in 0..14 for every input.
C20_NineTiers ==
    call.fn = "CAIDE" =>
        /\ ret.score \in 0..14
        /\ ret.risk_pct = Num(C20_Tier(ret.score))
        /\ \A s \in 0..ret.score : CaideRisk(s) <= ret.risk_pct.v

\* every risk factor present: the highest score and the last tier
C20_FourteenIsHundred ==
    /\ call.fn = "CAIDE"
    /\ ret.score = 14
    /\ ret.risk_pct = Num(100000)

\* C21: the COPD score the report passes to COPD_PS is round(pack_years/5)
\* plus 2 for a current smoker, capped to [0, 10] for every pack-years
\* value; COPD_PS maps score <= 4 -> 5, 5..6 -> 15, 7..8 -> 25, > 8 -> 35.
C21_CopdScoreAndBands ==
    report.rendered =>
        LET p == report.inputs.pack_years.v
            bonus == IF report.inputs.smoker_now THEN 2 ELSE 0
            s == report.copd_score
        IN  /\ s \in 0..10
            /\ \E r \in -50..50 :
                   /\ 10 * r <= 2 * p + 5 /\ 2 * p + 5 < 10 * r + 10
                   /\ s = (IF r + bonus < 0 THEN 0 ELSE IF r + bonus > 10 THEN 10 ELSE r + bonus)
            /\ report.copd_base =
                   Num(1000 * (IF s <= 4 THEN 5 ELSE IF s <= 6 THEN 15
                               ELSE IF s <= 8 THEN 25 ELSE 35))

\* 200 pack-years: round(200/5) = 40 is capped to 10, the 35% band
C21_HeavySmokerCapped ==
    /\ report.rendered
    /\ report.inputs.pack_years = Num(200)
    /\ report.copd_score = 10
    /\ report.copd_base = Num(35000)

\* C22: CancerGeneral returns base 2 for age < 50, 6 for 50..59, 10 for
\* 60..69, 15 for >= 70, plus 5 if smoker, plus 2 if alcohol > 14 units a
\* week, plus 2 if BMI >= 30, minus 1 if activity >= 5 days a week, floored
\* at 0.5; the result is >= 0.5 for every input.
C22_CancerAdditive ==
    call.fn = "CancerGeneral" =>
        LET a == call.args
            has(x) == x.k = "num"
            base == IF has(a.age) /\ a.age.v >= 70 THEN 15000
                    ELSE IF has(a.age) /\ a.age.v >= 60 THEN 10000
                    ELSE IF has(a.age) /\ a.age.v >= 50 THEN 6000 ELSE 2000
            sum == base + (IF a.smoker THEN 5000 ELSE 0)
                        + (IF has(a.alcohol_units) /\ a.alcohol_units.v > 14 THEN 2000 ELSE 0)
                        + (IF has(a.bmi) /\ a.bmi.v >= 3000 THEN 2000 ELSE 0)
                        - (IF has(a.activity_days) /\ a.activity_days.v >= 5 THEN 1000 ELSE 0)
        IN  /\ ret.risk_pct.k = "num"
            /\ ret.risk_pct.v >= 500
            /\ ret.risk_pct.v = (IF sum < 500 THEN 500 ELSE sum)

\* exactly 50, active, nothing else: 6 - 1 = 5
C22_FiftyActive ==
    /\ call.fn = "CancerGeneral"
    /\ call.args.age = Num(50) /\ call.args.activity_days = Num(5)
    /\ ~call.args.smoker
    /\ ret.risk_pct = Num(5000)

\* an argument that is missing, and one that is missing or 0
C23_Missing(x) == x.k \in {"null", "undefined"}
C23_MissingOrZero(x) == C23_Missing(x) \/ x = Num(0)

\* C23: every derived-biomarker function returns null, not a number or an
\* infinity, when a required input is missing: BMI when height or weight is
\* null or 0; WHtR when waist or height is missing; HOMA_IR and TyG when
\* either input is null; AIP when triglycerides or HDL is null or HDL is 0;
\* VAI when waist, BMI, triglycerides or HDL is missing or 0.
C23_DerivedNull ==
    /\ call.fn = "BMI" =>
           ((C23_MissingOrZero(call.h_cm) \/ C23_MissingOrZero(call.w_kg)) => ret = Null)
    /\ call.fn = "WHtR" =>
           ((C23_Missing(call.waist_cm) \/ C23_Missing(call.h_cm)) => ret = Null)
    /\ call.fn \in {"HOMA_IR"} =>
           ((C23_Missing(call.glucose) \/ C23_Missing(call.insulin)) => ret = Null)
    /\ call.fn = "TyG" =>
           ((C23_Missing(call.trig) \/ C23_Missing(call.glucose)) => ret = Null)
    /\ call.fn = "AIP" =>
           ((C23_Missing(call.trig) \/ C23_MissingOrZero(call.hdl)) => ret = Null)
    /\ call.fn = "VAI" =>
           (( \/ C23_MissingOrZero(call.waist_cm) \/ C23_MissingOrZero(call.bmi)
             \/ C23_MissingOrZero(call.trig) \/ C23_MissingOrZero(call.hdl) ) => ret = Null)

\* AIP with an HDL of 0: null, not log10(T/0) = Infinity
C23_AipZeroHdl ==
    /\ call.fn = "AIP"
    /\ call.trig = Num(15000) /\ call.hdl = Num(0)
    /\ ret = Null

\* the distance of two positive doubles, counted in doubles (0 for equal
\* values, 1 for neighbours), or 4 when it is more than 3
C24_UlpDist(x, y) ==
    LET hi == (x[1] - y[1]) * 2097152 + (x[2] - y[2])
        d == hi * 2097152 + (x[3] - y[3])
    IN  IF x[1] - y[1] > 1 \/ x[1] - y[1] < -1 THEN 4
        ELSE IF hi > 1 \/ hi < -1 THEN 4
        ELSE IF d > 3 \/ d < -3 THEN 4
        ELSE IF d < 0 THEN -d ELSE d

C25_RenderKeepsClient ==
    (call.fn = "openClient" /\ report.rendered) => client = call.c

\* a report rendered for a record without an age: the report uses 50, the
\* record still has no age
C25_DefaultNotStored ==
    /\ call.fn = "openClient" /\ report.rendered
    /\ call.c.age = Undefined /\ client.age = Undefined

\* the points of a Framingham.points call apart from those of argument
\* group g ("age" or "tc"), so that ret.points less C26_Others(g) is what the
\* group contributed
C26_Others(g) ==
    LET male == StartsWithM(call.sex)
    IN  (IF g = "age" THEN 0
         ELSE BandPoints(IF male THEN ageBandsM ELSE ageBandsF, call.age, 1))
        + (IF g = "tc" THEN 0 ELSE tcPoints(male, call.age, call.tc_mgdl))
        + hdlPoints(call.hdl_mgdl)
        + sbpPts(OrElse(call.sbp, Num(0)), call.bp_treated, male)
        + (IF call.smoker THEN smokerPoints(male, call.age) ELSE 0)
        + (IF call.diabetes THEN (IF male THEN 2 ELSE 4) ELSE 0)

\* C26 (does not hold): in Framingham, for every age and every total
\* cholesterol in [160, 1000] mg/dL, whole or fractional, exactly one
\* cholesterol band of the age-decade row applies, so within an age row the
\* cholesterol points never fall as total cholesterol rises: they are the
\* points of that one band, and at least those of every band below.
C26_OneCholesterolBand ==
    ( /\ call.fn = "Framingham.points"
      /\ call.tc_mgdl.k = "num" /\ call.tc_mgdl.v >= 16000 /\ call.tc_mgdl.v <= 100000 ) =>
        LET row == tcTable(StartsWithM(call.sex))[tcKey(call.age)]
            tc == call.tc_mgdl.v
            pts == ret.points - C26_Others("tc")
            hit == {i \in 1..Len(row) : row[i][1] * 100 <= tc /\ tc <= row[i][2] * 100}
        IN  /\ Cardinality(hit) = 1
            /\ \A i \in hit : pts = row[i][3]
            /\ \A i \in 1..Len(row) : row[i][2] * 100 < tc => pts >= row[i][3]

\* C27 (does not hold): in Framingham every supplied age receives the points
\* of some age band, and the age points are nondecreasing in age for each
\* sex, ages below 20 and above 79 included: they are at least the points of
\* every band of younger ages and at most those of every band of older ages.
C27_AgePointsNondecreasing ==
    (call.fn = "Framingham.points" /\ call.age.k = "num") =>
        LET ab == IF StartsWithM(call.sex) THEN ageBandsM ELSE ageBandsF
            age == call.age.v
            pts == ret.points - C26_Others("age")
        IN  /\ \E i \in 1..Len(ab) : pts = ab[i][3]
            /\ \A i \in 1..Len(ab) : ab[i][2] < age => pts >= ab[i][3]
            /\ \A i \in 1..Len(ab) : ab[i][1] > age => pts <= ab[i][3]

\* C28 (does not hold): when an uploaded lab file is parsed successfully the
\* app moves from the landing screen to the intake screen with the parsed
\* mapping as the client's labs; the "Could not parse file" alert is raised
\* only when the parser itself fails, and the app never stays on the
\* landing screen with AppState.client replaced by a partial record.
C28_UploadReachesIntake ==
    /\ alert = CouldNotParse => lab.kind = "corrupt"
    /\ screen = "landing" => client = NoClient
    /\ (screen = "intake" /\ "labs" \in DOMAIN client) => client.labs = lab.out

\* C29 (does not hold): after any sequence of Save, Duplicate and Delete
\* actions on the saved-clients list no two saved records share the same
\* id; Save replaces the record with the same id, keeping the list length,
\* and appends only when the id is new.
C29_UniqueIds ==
    \A i, j \in 1..Len(clients) : i # j => clients[i].id # clients[j].id

\* C30: in the 3-step intake form, after any sequence of Back, Next and Save
\* clicks and field changes, currentStep stays within 1..3; it rises only by
\* exactly one, only when validation of the current step passes and it is
\* below 3 (Next), it falls only by exactly one, only when it is above 1
\* (Back), and no other action changes it.
C30_StepWithinBounds ==
    [][ /\ form.currentStep \in 1..3 /\ form'.currentStep \in 1..3
        /\ form'.currentStep > form.currentStep =>
              /\ form'.currentStep = form.currentStep + 1
              /\ validateCurrentStep(form.currentStep, form.state)
              /\ form.currentStep < 3
              /\ form'.msg = "Moved to next step."
        /\ form'.currentStep < form.currentStep =>
              /\ form'.currentStep = form.currentStep - 1
              /\ form.currentStep > 1
              /\ form'.msg = "Moved to previous step."
        /\ form'.msg \in {"danger", "Steps 1-3 complete.", "Progress saved locally."} =>
              form'.currentStep = form.currentStep ]_vars

\* the form opened at step 1 with nothing stored has been filled in and
\* moved to step 3 by two Next clicks
C30_ReachedLastStep ==
    /\ form.currentStep = 3 /\ form.msg = "Moved to next step."
    /\ form.stored # Null /\ form.stored # SavedState
    /\ validateCurrentStep(1, form.state) /\ validateCurrentStep(2, form.state)

=============================================================================
